---------------------------- MODULE Spec2Model ----------------------------
(***************************************************************************)
(* A model of SpaceLink's real-time streaming core:                        *)
(*   - the network optimizer (src/network_optimizer.py): JitterBuffer,     *)
(*     AdaptiveBitrate and the NetworkOptimizer facade;                    *)
(*   - the audio and video track producers (src/audio_capture.py,          *)
(*     src/src/core/webrtc_server.py);                                     *)
(*   - the peer connection manager and its signaling endpoints             *)
(*     (src/src/core/webrtc_server.py, src/src/core/server.py).            *)
(*                                                                         *)
(* Time is the wall clock in integer milliseconds (time.time() * 1000).    *)
(* Latency is in ms, bandwidth in kbps, packet loss in hundredths (the     *)
(* code's fraction times 100).  Averages are compared exactly, as          *)
(* sum > threshold * count, which is what statistics.mean followed by a    *)
(* comparison computes on these inputs.                                    *)
(***************************************************************************)
EXTENDS Integers, Sequences, FiniteSets, TLC

\* ------------------------------------------------------------------------
\* Program constants (network_optimizer.py)
\* ------------------------------------------------------------------------
min_delay == 20
max_delay == 200
target_delay == 50
ArrivalMaxLen == 100
JitterMaxLen == 50
LatencyMaxLen == 30
BandwidthMaxLen == 20
MeasurementMaxLen == 100
MinJitterSamples == 5
MinLatencySamples == 3
adjustment_cooldown == 3
DefaultBandwidth == 5000

\* Program constants (audio_capture.py)
samples_per_frame == 960
channels == 2
AudioQueueMaxSize == 50
\* aiortc's video clock: VIDEO_CLOCK_RATE * VIDEO_PTIME ticks per frame.
VideoPtsStep == 90000 \div 30

\* QUALITY_PRESETS: name |-> <<width, height, bitrate, fps>>
QUALITY_PRESETS ==
    [p \in {"4k", "1440p", "1080p", "720p", "480p", "360p"} |->
        CASE p = "4k"    -> [width |-> 3840, height |-> 2160, bitrate |-> 15000, fps |-> 60]
          [] p = "1440p" -> [width |-> 2560, height |-> 1440, bitrate |-> 8000, fps |-> 60]
          [] p = "1080p" -> [width |-> 1920, height |-> 1080, bitrate |-> 5000, fps |-> 60]
          [] p = "720p"  -> [width |-> 1280, height |-> 720, bitrate |-> 2500, fps |-> 30]
          [] p = "480p"  -> [width |-> 854, height |-> 480, bitrate |-> 1000, fps |-> 30]
          [] OTHER       -> [width |-> 640, height |-> 360, bitrate |-> 500, fps |-> 24]]

\* ------------------------------------------------------------------------
\* Bounds of the model
\* ------------------------------------------------------------------------
\* Spec: the clock stops at MaxTime ms, at most MaxUpdates update calls.
MaxTime == 6000
MaxUpdates == 4
\* SpecTier: at most MaxTierUpdates update calls.
MaxTierUpdates == 3
\* SpecJitter: at most MaxJitterUpdates update calls, the clock stops at
\* MaxJitterTime ms.
MaxJitterUpdates == 5
MaxJitterTime == 60
\* SpecDelay: at most MaxDelayUpdates calls of update.
MaxDelayUpdates == 6
\* SpecWindows: at most MaxFeeds update calls, one every FeedInterval ms.
MaxFeeds == 103

\* SpecAudio, SpecTracks: at most MaxCaptured blocks delivered by the audio
\* backend, at most MaxPulls audio pulls and MaxVideoPulls video pulls.
MaxCaptured == 52
MaxPulls == 3
MaxVideoPulls == 3
\* SpecTracks: at most MaxTrackCaptured blocks delivered by the audio backend.
MaxTrackCaptured == 2
\* SpecRTC: at most MaxConns peer connections are allocated.
MaxConns == 1
\* SpecRTCFair: at most MaxFairConns peer connections are allocated.
MaxFairConns == 1
\* SpecClose: at most MaxCloseConns peer connections are allocated.
MaxCloseConns == 1
\* SpecShutdown: at most MaxShutdownConns peer connections are allocated.
MaxShutdownConns == 2
\* SpecClose: cleanup_all is called at most MaxCleanups times.
MaxCleanups == 2
\* SpecSettings: connections, and settings requests (endpoint and channel).
MaxSettingsConns == 1
MaxSettingsUpdates == 2
\* The settings a manager, a track and the server start with.
DefaultFps == 15
DefaultMaxWidth == 1280
DefaultQuality == 50
\* The limits of update_video_settings.
MinFps == 5
MaxFps == 60
MinQuality == 10
MaxQuality == 100
MinMaxWidth == 640
MaxMaxWidth == 3840
\* Requested values: below, inside and above the limits.
FpsRequests == {0, 30, 100}
QualityRequests == {5, 50, 200}
MaxWidthRequests == {0, 800, 5000}
MessageTypes == {"config", "mouse_move"}
\* SpecMonitor: connections, and successful monitor switches.
MaxMonitorConns == 2
MaxSwitches == 2
\* The monitors of the machine, and the one a ScreenCapture starts with.
MonitorCount == 2
DefaultMonitor == 1
\* The indices a client asks for: each entry of the list and one on either
\* side of it.
MonitorRequests == (0 - 1)..(MonitorCount + 1)
\* SpecSelect: one connection, and successful monitor switches.
MaxSelectConns == 1
MaxSelectSwitches == 2
\* SpecLoop: at most MaxLoopConns peer connections are allocated.
MaxLoopConns == 2
\* SpecProducers: at most MaxProducerConns peer connections are allocated.
MaxProducerConns == 2

\* Inputs of update(latency, packet_loss, bandwidth).
Sample(l, p, b) == [latency |-> l, loss |-> p, bandwidth |-> b]
CooldownSamples == {Sample(10, 0, 20000), Sample(200, 50, 5000)}
TierSamples == {Sample(200, 0, 5000), Sample(10, 0, 20000), Sample(100, 0, 20000),
                Sample(10, 0, 1999), Sample(50, 0, 5000), Sample(20, 0, 10000),
                Sample(51, 100, 999)}
JitterSample == Sample(50, 0, 5000)
\* SpecPreset: a sample of the lowest and one of the highest tier, arriving
\* one cooldown apart, enough of them for the delay to be computed.
PresetSamples == {Sample(200, 0, 500), Sample(10, 0, 20000)}
MaxPresetUpdates == 6
\* SpecRank: a sample of the lowest, of the middle and of the highest tier;
\* their averages over 3 and 4 updates fall in every tier of the table.
RankSamples == {Sample(200, 0, 500), Sample(100, 0, 3000), Sample(10, 0, 20000)}
MaxRankUpdates == 4
\* SpecScore: what POST /optimize/network/update accepts, any three numbers:
\* a latency below 0 (the clocks of the two ends disagree), a loss of 0.5, a
\* loss above 1, and two samples that differ in the loss only.  The loss
\* field is packet_loss * 100.
ScoreSamples == {Sample(0 - 50, 0, 5000), Sample(35, 50, 5000), Sample(35, 0, 5000),
                 Sample(250, 150, 5000)}
MaxScoreUpdates == 3
MaxScoreTime == 3000
MaxRankTime == 6000
\* SpecMix: volumes and samples are counted in hundredths, FullScale being
\* 1.0; the int16 range and the factor of the conversion.
FullScale == 100
Int16Scale == 32767
Int16Min == 0 - 32768
Int16Max == 32767
\* At most MaxMixTracks tracks are created.
MaxMixTracks == 2
\* Volumes asked for: below, inside and above 0.0 .. 1.0.
VolumeRequests == {0 - 50, 50, 200}
\* Samples of a captured block: inside -1.0 .. 1.0, at its ends, and beyond
\* them (a float32 stream is not limited to the nominal range).
InputSamples == {0 - 150, 0 - 33, 100, 150}
\* Clock steps (ms) of each specification.
CooldownSteps == {1500}
TierSteps == {3000}
JitterSteps == {10, 40}
DelaySteps == {5, 40, 300}
LongestDelayStep == 300
FeedInterval == 100
\* The sample of the n-th feed of SpecWindows: all different, so that the
\* order and the identity of the retained entries are visible.
FeedSample(n) == Sample(n, 0, 20000 - 100 * n)

VARIABLES
    now,                 \* time.time() * 1000
    \* JitterBuffer
    arrival_times, jitter_history, current_delay,
    \* AdaptiveBitrate
    latency_history, bandwidth_history, current_preset, last_adjustment,
    \* NetworkOptimizer
    metrics, measurement_history,
    \* history of the run, for stating properties
    fed,                 \* every update call so far: [t, latency, bandwidth]
    tier_changes,        \* the times at which current_preset changed
    lastCalc,            \* what the last calculate_quality call saw and did
    lastDelay,           \* what the last calculate_optimal_delay call saw and did
    target_dropped,      \* a call during the cooldown left a differing target unapplied
    lastWindow,          \* the jitter window the last calculate_optimal_delay call saw
    evaluations,         \* the calls of calculate_quality that reached the table
    lastReturn           \* what the last get_recommended_settings call returned

netVars == <<now, arrival_times, jitter_history, current_delay, latency_history,
             bandwidth_history, current_preset, last_adjustment, metrics,
             measurement_history, fed, tier_changes, lastCalc, lastDelay,
             target_dropped, lastWindow, evaluations,
             lastReturn>>

VARIABLES
    \* AudioCaptureTrack
    audio_backend,       \* AUDIO_BACKEND, fixed when the module is imported
    track_running,       \* _running
    capture_thread,      \* the capture thread: "none", "loop", "put", "done", "failed"
    held_block,          \* the block the capture thread is about to put
    audio_queue,         \* _audio_queue
    audio_timestamp,     \* _timestamp
    track_muted,         \* _muted
    \* ScreenVideoTrack
    video_timestamp,     \* _timestamp
    video_pc,            \* recv: "idle", or "grabbing" while get_frame runs
    video_pts,           \* the pts recv got from next_timestamp
    \* history of the run, for stating properties
    captured,            \* the number of blocks the backend has delivered
    dropped,             \* the ids of the blocks that were not queued
    lastCapture,         \* what the capture thread saw and did on its last block
    audio_out,           \* the frames returned by the audio recv calls
    video_out,           \* the frames returned by the video recv calls
    video_failed,        \* the number of video recv calls that raised
    video_last           \* how the last video recv call ended

audioVars == <<audio_backend, track_running, capture_thread, held_block, audio_queue,
               audio_timestamp, track_muted, captured, dropped, lastCapture, audio_out>>
videoVars == <<video_timestamp, video_pc, video_pts, video_out, video_failed,
               video_last>>

\* WebRTCManager, the peer connections it made, and the signaling endpoints
VARIABLES
    pc_count,            \* the number of RTCPeerConnection objects made so far
    signalingState,      \* pc.signalingState ("none": not made yet)
    iceGatheringState,   \* pc.iceGatheringState
    connectionState,     \* pc.connectionState
    negotiated,          \* pc has both its local and its remote description
    op_kind,             \* the operation that made pc: create_offer or handle_offer
    op_pc,               \* where that operation's coroutine is
    wait_end,            \* how _wait_for_ice_gathering ended: complete, event, timeout
    ice_handler,         \* on_ice_gathering_state_change is registered on pc
    gathering_complete,  \* the asyncio.Event of the wait is set
    state_handler,       \* an on_connectionstatechange task of pc is scheduled
    peer_connections,    \* WebRTCManager.peer_connections
    data_channels,       \* WebRTCManager.data_channels (by connection)
    active_pcs,          \* server.active_pcs (its keys)
    cleanup_pc,          \* where cleanup_all is: idle, closing, done
    cleanup_list,        \* the connections cleanup_all has still to close
    ice_bound,           \* the 5 s after pc's answer: off, running, met, missed
    lastAnswer,          \* the last call of receive_webrtc_answer and its result
    audio_enabled,       \* AUDIO_AVAILABLE and WebRTCManager.audio_enabled
    pc_audio,            \* pc's audio track: none, capturing, stopping, ended
    active_tracks,       \* audio_manager.active_tracks (by connection)
    sender_started,      \* pc's RTP senders were started (the transport came up)
    cleanup_calls,       \* the calls of cleanup_peer_connection on pc (2: two or more)
    all_calls,           \* the calls of cleanup_all so far
    cleanup_snap,        \* live set, channels and states as the last cleanup_all left them
    lastCleanup,         \* the last cleanup call: which, whether a repeat, what it did
    fps,                 \* WebRTCManager.fps
    max_width,           \* WebRTCManager.max_width
    track_fps,           \* ScreenVideoTrack.fps of pc's video track
    track_max_width,     \* ScreenVideoTrack.max_width of pc's video track
    video_settings,      \* server.video_settings (fps, quality, max_width)
    track_capture,       \* ScreenVideoTrack.screen_capture of pc's video track
    senders,             \* the tracks added to pc with addTrack (kind and object)
    capture_monitor,     \* ScreenCapture.monitor of each object: the monitor whose region it is
    monitor_index,       \* ScreenCapture._monitor_index of each object
    lastSel,             \* the last select_monitor call and what it did
    mgr_capture,         \* WebRTCManager.screen_capture (which object)
    switch_count,        \* the successful calls of select_monitor so far
    recv_pc,             \* where recv of pc's video track is: idle, capturing, grabbed
    recv_grab,           \* the monitor the worker grabbed for that recv
    recv_epoch,          \* the monitor switches there had been when that recv started
    recv_start,          \* the track's settings when that recv started
    lastFrame,           \* the last frame of pc's track: settings at start and as used
    lastMessage,         \* the last control-channel message and what was done with it
    settings_updates     \* the settings requests so far

pcVars == <<pc_count, signalingState, iceGatheringState, connectionState, negotiated>>
opVars == <<op_kind, op_pc, wait_end, ice_handler, gathering_complete>>
mgrVars == <<peer_connections, data_channels, active_pcs>>
cleanupVars == <<cleanup_pc, cleanup_list>>
resVars == <<audio_enabled, pc_audio, active_tracks, sender_started>>
closeVars == <<cleanup_calls, all_calls, cleanup_snap, lastCleanup>>
answerVars == <<ice_bound, lastAnswer>>
trackVars == <<track_fps, track_max_width, track_capture, senders>>
monitorVars == <<capture_monitor, monitor_index, mgr_capture, switch_count, lastSel>>
settingsVars == <<fps, max_width, video_settings, recv_pc, recv_start, recv_grab,
                  recv_epoch, lastFrame, lastMessage, settings_updates>>
rtcVars == <<pcVars, opVars, mgrVars, cleanupVars, state_handler, resVars, closeVars,
             answerVars, trackVars, settingsVars, monitorVars>>

\* ------------------------------------------------------------------------
\* Hardware encoders (src/modules/hw_encoder.py)
VARIABLES
    probe,               \* what the machine answers to the detection
    ffmpeg_path,         \* HardwareEncoderManager._ffmpeg_path is set
    available_encoders,  \* HardwareEncoderManager._available_encoders
    selected_encoder,    \* HardwareEncoderManager._selected_encoder
    lastSelect,          \* the last request to select an encoder and its result
    select_ok,           \* some select_encoder call has succeeded
    select_error         \* some select_encoder call has failed

encVars == <<probe, ffmpeg_path, available_encoders, selected_encoder, lastSelect,
             select_ok, select_error>>

\* ------------------------------------------------------------------------
\* AudioManager and the samples of its tracks (audio_capture.py)
VARIABLES
    am_muted,            \* AudioManager.muted
    am_volume,           \* AudioManager.volume, in hundredths
    track_settings,      \* _muted and _volume of each track of AudioManager.active_tracks
    lastPull             \* the last sample a recv call converted, and the result

mixVars == <<am_muted, am_volume, track_settings, lastPull>>

vars == <<netVars, audioVars, videoVars, rtcVars, encVars, mixVars>>

\* ------------------------------------------------------------------------
\* Helpers
\* ------------------------------------------------------------------------
RECURSIVE SeqSum(_)
SeqSum(s) == IF s = <<>> THEN 0 ELSE Head(s) + SeqSum(Tail(s))

RECURSIVE SeqSumSq(_)
SeqSumSq(s) == IF s = <<>> THEN 0 ELSE Head(s) * Head(s) + SeqSumSq(Tail(s))

MaxOf(a, b) == IF a >= b THEN a ELSE b
MinOf(a, b) == IF a <= b THEN a ELSE b

LastN(s, k) == SubSeq(s, Len(s) - MinOf(k, Len(s)) + 1, Len(s))

\* A plausible slip: a full window refuses the new entry instead of evicting.
DequeAppendKeepOldest(q, x, maxlen) ==
    IF Len(q) < maxlen THEN Append(q, x) ELSE q

\* deque(maxlen=n).append(x): a full deque discards its oldest entry.
DequeAppend(q, x, maxlen) ==
    IF Len(q) < maxlen THEN Append(q, x) ELSE Append(Tail(q), x)

\* ------------------------------------------------------------------------
\* JitterBuffer
\* ------------------------------------------------------------------------
\* add_packet: the timestamp argument is ignored; the arrival time is the clock.
AddPacketArrivals(at, t) == DequeAppend(at, t, ArrivalMaxLen)

\* A plausible slip: the delta is recorded from the third arrival on.
AddPacketJitterLate(at, jh, t) ==
    LET at2 == AddPacketArrivals(at, t)
    IN  IF Len(at2) > 2
        THEN DequeAppend(jh, at2[Len(at2)] - at2[Len(at2) - 1], JitterMaxLen)
        ELSE jh

\* add_packet: from the second arrival on, the time since the one before.
AddPacketJitter(at, jh, t) ==
    LET at2 == AddPacketArrivals(at, t)
    IN  IF Len(at2) >= 2
        THEN DequeAppend(jh, at2[Len(at2)] - at2[Len(at2) - 1], JitterMaxLen)
        ELSE jh

\* k <= mean(h) + 2 * stdev(h), for Len(h) >= 2 and an integer k, decided
\* exactly: with n = Len(h), S = sum, Q = sum of squares,
\*   mean = S/n, stdev^2 = (n*Q - S*S) / (n*(n-1)),
\*   k - S/n <= 2*stdev  <=>  k*n <= S  \/  (k*n - S)^2 * (n-1) <= 4*n*(n*Q - S*S).
AtMostMeanPlus2Stdev(k, n, S, Q) ==
    \/ k * n <= S
    \/ (k * n - S) * (k * n - S) * (n - 1) <= 4 * n * (n * Q - S * S)

\* int(mean_delay + 2 * jitter), saturated at max_delay + 1 (the clamp that
\* follows maps every larger value to max_delay).  Inter-arrival times are
\* never negative, so int() is the floor.
OptimalCapped(h) ==
    LET n == Len(h)
        S == SeqSum(h)
        Q == SeqSumSq(h)
    IN  CHOOSE k \in 0..(max_delay + 1) :
            /\ AtMostMeanPlus2Stdev(k, n, S, Q)
            /\ (k = max_delay + 1 \/ ~AtMostMeanPlus2Stdev(k + 1, n, S, Q))

\* A plausible slip: the delay is only bounded from above.
ClampDelayFromAbove(k) == MinOf(max_delay, k)

\* max(self.min_delay, min(self.max_delay, optimal))
ClampDelay(k) == MaxOf(min_delay, MinOf(max_delay, k))

\* A plausible slip: the early return taken below 4 samples instead of 5.
CalculateOptimalDelayEarly(jh, cur) ==
    IF Len(jh) < MinJitterSamples - 1
    THEN [ret |-> target_delay, current_delay |-> cur]
    ELSE LET d == ClampDelay(OptimalCapped(jh))
         IN  [ret |-> d, current_delay |-> d]

\* calculate_optimal_delay: the value returned and the new current_delay.
CalculateOptimalDelay(jh, cur) ==
    IF Len(jh) < MinJitterSamples
    THEN [ret |-> target_delay, current_delay |-> cur]
    ELSE LET d == ClampDelay(OptimalCapped(jh))
         IN  [ret |-> d, current_delay |-> d]

\* ------------------------------------------------------------------------
\* AdaptiveBitrate
\* ------------------------------------------------------------------------
\* A plausible slip: the 720p row tests latency >= 100.
SelectTierOffByOne(sl, nl, sb, nb) ==
    IF sl > 150 * nl \/ sb < 1000 * nb THEN "480p"
    ELSE IF sl >= 100 * nl \/ sb < 2000 * nb THEN "720p"
    ELSE IF sl > 50 * nl \/ sb < 5000 * nb THEN "1080p"
    ELSE IF sl > 20 * nl \/ sb < 10000 * nb THEN "1440p"
    ELSE "4k"

\* The quality selection chain on avg_latency = sl/nl, avg_bandwidth = sb/nb.
SelectTier(sl, nl, sb, nb) ==
    IF sl > 150 * nl \/ sb < 1000 * nb THEN "480p"
    ELSE IF sl > 100 * nl \/ sb < 2000 * nb THEN "720p"
    ELSE IF sl > 50 * nl \/ sb < 5000 * nb THEN "1080p"
    ELSE IF sl > 20 * nl \/ sb < 10000 * nb THEN "1440p"
    ELSE "4k"

\* QUALITY_PRESETS, by resolution: 480p < 720p < 1080p < 1440p < 4k.
TierRank(p) ==
    CASE p = "480p" -> 1 [] p = "720p" -> 2 [] p = "1080p" -> 3
      [] p = "1440p" -> 4 [] p = "4k" -> 5

\* A plausible slip: the table is read with the latest sample of each window
\* instead of its mean.
AverageTierOfLatest(lh, bh) ==
    SelectTier(lh[Len(lh)], 1,
               IF bh = <<>> THEN DefaultBandwidth ELSE bh[Len(bh)], 1)

\* The tier of the table for the averages of the windows lh and bh.
AverageTier(lh, bh) ==
    SelectTier(SeqSum(lh), Len(lh),
               IF bh = <<>> THEN DefaultBandwidth ELSE SeqSum(bh),
               IF bh = <<>> THEN 1 ELSE Len(bh))

\* A plausible slip: the cooldown test is missing.
InCooldownNever(t, last) == FALSE

\* time.time() - self.last_adjustment < self.adjustment_cooldown (seconds).
InCooldown(t, last) == t - last < adjustment_cooldown * 1000

\* A plausible slip: the early return taken below 2 samples instead of 3.
TooFewSamplesOffByOne(nl) == nl < MinLatencySamples - 1

\* calculate_quality: `if len(self.latency_history) < 3`
TooFewSamples(nl) == nl < MinLatencySamples

\* calculate_quality at time t: the new preset and last_adjustment, and a
\* record of the call.
CalculateQuality(lh, bh, cur, last, t) ==
    LET sl == SeqSum(lh)
        nl == Len(lh)
        sb == IF bh = <<>> THEN DefaultBandwidth ELSE SeqSum(bh)
        nb == IF bh = <<>> THEN 1 ELSE Len(bh)
        base == [before |-> cur, nl |-> nl, sl |-> sl, sb |-> sb, nb |-> nb]
        none == [before |-> cur, nl |-> 0, sl |-> 0, sb |-> 0, nb |-> 0]
    IN  IF TooFewSamples(nl)
        THEN [preset |-> cur, last |-> last,
              call |-> none @@ [evaluated |-> FALSE, cooling |-> FALSE, ret |-> cur]]
        ELSE IF InCooldown(t, last)
        THEN [preset |-> cur, last |-> last,
              call |-> none @@ [evaluated |-> FALSE, cooling |-> TRUE, ret |-> cur]]
        ELSE LET target == AverageTier(lh, bh)
             IN  [preset |-> target,
                  last |-> IF target # cur THEN t ELSE last,
                  call |-> base @@ [evaluated |-> TRUE, cooling |-> FALSE, ret |-> target]]

\* A plausible slip: the preset of the construction-time tier is returned.
GetSettingsOfDefault(preset) ==
    [preset |-> preset, width |-> QUALITY_PRESETS["1080p"].width,
     height |-> QUALITY_PRESETS["1080p"].height,
     bitrate |-> QUALITY_PRESETS["1080p"].bitrate,
     fps |-> QUALITY_PRESETS["1080p"].fps]

\* get_settings: {"preset": preset, **self.QUALITY_PRESETS[preset]}
GetSettings(preset) ==
    [preset |-> preset, width |-> QUALITY_PRESETS[preset].width,
     height |-> QUALITY_PRESETS[preset].height,
     bitrate |-> QUALITY_PRESETS[preset].bitrate,
     fps |-> QUALITY_PRESETS[preset].fps]

\* The dictionary get_recommended_settings returns.
RecommendedSettings(preset, buffer, score, latency) ==
    [video |-> GetSettings(preset), buffer_delay |-> buffer,
     quality_score |-> score, current_latency |-> latency]

NoReturn == [video |-> [preset |-> "none"]]

NoCalc == [before |-> "1080p", nl |-> 0, sl |-> 0, sb |-> 0, nb |-> 0,
           evaluated |-> FALSE, cooling |-> FALSE, ret |-> "1080p"]
NoDelay == [n |-> 0, before |-> target_delay, after |-> target_delay,
            ret |-> target_delay]

\* ------------------------------------------------------------------------
\* NetworkOptimizer
\* ------------------------------------------------------------------------
\* int((max(0, 100 - latency) + max(0, 100 - packet_loss * 100)) / 2)
QualityScore(latency, loss) ==
    (MaxOf(0, 100 - latency) + MaxOf(0, 100 - loss)) \div 2

\* A plausible slip: last_adjustment starts at 0, the epoch, which lies a
\* cooldown and more before the construction.
LastAdjustmentAtEpoch(t) == t - adjustment_cooldown * 1000

\* AdaptiveBitrate.__init__: self.last_adjustment = time.time()
LastAdjustmentAtConstruction(t) == t

NetInit ==
    /\ now = 0
    /\ arrival_times = <<>>
    /\ jitter_history = <<>>
    /\ current_delay = target_delay
    /\ latency_history = <<>>
    /\ bandwidth_history = <<>>
    /\ current_preset = "1080p"
    /\ last_adjustment = LastAdjustmentAtConstruction(now)
    /\ metrics = [latency |-> 0, jitter |-> 0, packet_loss |-> 0, bandwidth |-> 0,
                  quality_score |-> 100]
    /\ measurement_history = <<>>
    /\ fed = <<>>
    /\ tier_changes = <<>>
    /\ lastCalc = NoCalc
    /\ lastDelay = NoDelay
    /\ target_dropped = FALSE
    /\ lastWindow = <<>>
    /\ evaluations = {}
    /\ lastReturn = NoReturn

\* The clock advances by dt ms, up to limit.
Tick(dt, limit) ==
    /\ now + dt <= limit
    /\ now' = now + dt
    /\ UNCHANGED <<arrival_times, jitter_history, current_delay, latency_history,
                   bandwidth_history, current_preset, last_adjustment, metrics,
                   measurement_history, fed, tier_changes, lastCalc, lastDelay,
                   target_dropped>>

\* What NetworkOptimizer.update(latency, packet_loss, bandwidth) assigns.
UpdateEffect(s) ==
    /\ metrics' = [metrics EXCEPT !.latency = s.latency, !.packet_loss = s.loss,
                                  !.bandwidth = s.bandwidth,
                                  !.quality_score = QualityScore(s.latency, s.loss)]
    /\ arrival_times' = AddPacketArrivals(arrival_times, now)
    /\ jitter_history' = AddPacketJitter(arrival_times, jitter_history, now)
    /\ latency_history' = DequeAppend(latency_history, s.latency, LatencyMaxLen)
    /\ bandwidth_history' = DequeAppend(bandwidth_history, s.bandwidth, BandwidthMaxLen)
    /\ measurement_history' =
          DequeAppend(measurement_history,
                      [timestamp |-> now, latency |-> s.latency,
                       quality |-> QualityScore(s.latency, s.loss)],
                      MeasurementMaxLen)
    /\ fed' = Append(fed, [t |-> now, latency |-> s.latency, bandwidth |-> s.bandwidth])

\* What AdaptiveBitrate.get_settings assigns (through calculate_quality), on
\* the histories lh and bh.
GetSettingsEffect(lh, bh) ==
    LET r == CalculateQuality(lh, bh, current_preset, last_adjustment, now)
    IN  /\ current_preset' = r.preset
        /\ last_adjustment' = r.last
        /\ lastCalc' = r.call
        /\ tier_changes' = IF r.preset # current_preset
                           THEN Append(tier_changes, now) ELSE tier_changes
        /\ target_dropped' = (target_dropped \/
                                (r.call.cooling /\ AverageTier(lh, bh) # current_preset))

\* What JitterBuffer.calculate_optimal_delay assigns, on the jitter window jh.
OptimalDelayEffect(jh) ==
    LET d == CalculateOptimalDelay(jh, current_delay)
    IN  /\ current_delay' = d.current_delay
        /\ lastDelay' = [n |-> Len(jh), before |-> current_delay,
                         after |-> d.current_delay, ret |-> d.ret]

\* NetworkOptimizer.update
Update(s) ==
    /\ UpdateEffect(s)
    /\ UNCHANGED <<now, current_delay, current_preset, last_adjustment, tier_changes,
                   lastCalc, lastDelay, target_dropped>>

\* NetworkOptimizer.get_recommended_settings
GetRecommendedSettings ==
    /\ GetSettingsEffect(latency_history, bandwidth_history)
    /\ OptimalDelayEffect(jitter_history)
    /\ UNCHANGED <<now, arrival_times, jitter_history, latency_history,
                   bandwidth_history, metrics, measurement_history, fed>>

\* NetworkOptimizer.get_status
GetStatus ==
    /\ GetSettingsEffect(latency_history, bandwidth_history)
    /\ UNCHANGED <<now, arrival_times, jitter_history, current_delay, latency_history,
                   bandwidth_history, metrics, measurement_history, fed, lastDelay>>

\* optimize_network: update, then get_recommended_settings, in one handler.
OptimizeNetwork(s) ==
    /\ UpdateEffect(s)
    /\ GetSettingsEffect(latency_history', bandwidth_history')
    /\ OptimalDelayEffect(jitter_history')
    /\ UNCHANGED now

\* ------------------------------------------------------------------------
\* AudioCaptureTrack (audio_capture.py)
\* ------------------------------------------------------------------------
Backends == {"sounddevice", "pyaudio", "none"}

\* The n-th block of the backend: indata (blocksize frames by channels), or
\* the buffer of stream.read(samples_per_frame) reshaped to (-1, channels).
CapturedBlock(n) == [id |-> n, samples |-> samples_per_frame, channels |-> channels]

\* np.zeros((self._samples_per_frame, self.channels)); id 0 is no captured block.
SilenceBlock == [id |-> 0, samples |-> samples_per_frame, channels |-> channels]

\* A plausible slip: the fullness test is off by one.
QueueFullOffByOne(q) == Len(q) > AudioQueueMaxSize

\* self._audio_queue.full()
QueueFull(q) == Len(q) >= AudioQueueMaxSize

\* A plausible slip: silence is built with one channel.
RecvTakeMonoSilence(q) ==
    IF q = <<>> THEN [SilenceBlock EXCEPT !.channels = 1] ELSE Head(q)

\* get_nowait(), or silence on queue.Empty
RecvTake(q) == IF q = <<>> THEN SilenceBlock ELSE Head(q)

\* A plausible slip: the timestamp is not advanced.
NextAudioTimestampStuck(ts) == ts

\* self._timestamp += self._samples_per_frame
NextAudioTimestamp(ts) == ts + samples_per_frame

NoCapture == [id |-> 0, full |-> FALSE, qsize |-> 0]

\* __init__ and _start_capture with AUDIO_BACKEND = b
AudioInit(b) ==
    /\ audio_backend = b
    /\ track_running = (b # "none")
    /\ capture_thread = IF b = "none" THEN "none" ELSE "loop"
    /\ held_block = SilenceBlock
    /\ audio_queue = <<>>
    /\ audio_timestamp = 0
    /\ track_muted = FALSE
    /\ captured = 0
    /\ dropped = {}
    /\ lastCapture = NoCapture
    /\ audio_out = <<>>

\* The backend delivers a block: audio_callback, or the loop body of
\* _capture_pyaudio after stream.read, up to the fullness test.  A block can
\* still arrive after stop() has cleared _running, until the thread ends.
CaptureBlock ==
    /\ capture_thread = "loop"
    /\ captured' = captured + 1
    /\ IF ~QueueFull(audio_queue)
       THEN /\ capture_thread' = "put"
            /\ held_block' = CapturedBlock(captured + 1)
            /\ dropped' = dropped
       ELSE /\ dropped' = dropped \cup {captured + 1}
            /\ UNCHANGED <<capture_thread, held_block>>
    /\ lastCapture' = [id |-> captured + 1, full |-> QueueFull(audio_queue),
                       qsize |-> Len(audio_queue)]
    /\ UNCHANGED <<audio_backend, track_running, audio_queue, audio_timestamp,
                   track_muted, audio_out>>

\* A plausible slip: a LifoQueue, the newest block at the head.
QueuePutFront(q, block) == <<block>> \o q

\* queue.Queue.put: first in, first out.
QueuePut(q, block) == Append(q, block)

\* self._audio_queue.put(block): waits while the queue holds maxsize items.
CapturePut ==
    /\ capture_thread = "put"
    /\ Len(audio_queue) < AudioQueueMaxSize
    /\ audio_queue' = QueuePut(audio_queue, held_block)
    /\ capture_thread' = "loop"
    /\ held_block' = SilenceBlock
    /\ UNCHANGED <<audio_backend, track_running, audio_timestamp, track_muted,
                   captured, dropped, lastCapture, audio_out>>

\* The capture loop sees _running false and ends.
CaptureExit ==
    /\ capture_thread = "loop"
    /\ ~track_running
    /\ capture_thread' = "done"
    /\ UNCHANGED <<audio_backend, track_running, held_block, audio_queue,
                   audio_timestamp, track_muted, captured, dropped, lastCapture,
                   audio_out>>

\* A plausible slip: the except clause only prints.
RunningAfterErrorKept(r) == r

\* `self._running = False` of the except clauses.
RunningAfterError(r) == FALSE

\* The backend raises (no device, stream error): the except clause clears
\* _running and the thread ends.
CaptureError ==
    /\ capture_thread = "loop"
    /\ capture_thread' = "failed"
    /\ track_running' = RunningAfterError(track_running)
    /\ UNCHANGED <<audio_backend, held_block, audio_queue, audio_timestamp,
                   track_muted, captured, dropped, lastCapture, audio_out>>

\* AudioCaptureTrack.stop, up to the join
AudioStop ==
    /\ track_running
    /\ track_running' = FALSE
    /\ UNCHANGED <<audio_backend, capture_thread, held_block, audio_queue,
                   audio_timestamp, track_muted, captured, dropped, lastCapture,
                   audio_out>>

\* AudioCaptureTrack.set_muted
SetMuted(m) ==
    /\ track_muted # m
    /\ track_muted' = m
    /\ UNCHANGED <<audio_backend, track_running, capture_thread, held_block,
                   audio_queue, audio_timestamp, captured, dropped, lastCapture,
                   audio_out>>

\* AudioCaptureTrack.recv: the frame returned, with the block it was made from.
AudioRecv ==
    /\ Len(audio_out) < MaxPulls
    /\ LET got == RecvTake(audio_queue)
       IN  audio_out' = Append(audio_out,
                               [pts |-> audio_timestamp,
                                queue_empty |-> (audio_queue = <<>>),
                                head |-> IF audio_queue = <<>> THEN 0
                                         ELSE Head(audio_queue).id,
                                src |-> got.id,
                                samples |-> got.samples,
                                channels |-> got.channels,
                                zeroed |-> (track_muted \/ got.id = 0),
                                failed |-> (capture_thread = "failed")])
    /\ audio_queue' = IF audio_queue = <<>> THEN audio_queue ELSE Tail(audio_queue)
    /\ audio_timestamp' = NextAudioTimestamp(audio_timestamp)
    /\ UNCHANGED <<audio_backend, track_running, capture_thread, held_block,
                   track_muted, captured, dropped, lastCapture>>

\* ------------------------------------------------------------------------
\* AudioManager, and the conversion of a sample in AudioCaptureTrack.recv
\* ------------------------------------------------------------------------
\* set_volume: max(0.0, min(1.0, volume))
ClampVolume(v) == MaxOf(0, MinOf(FullScale, v))

\* A plausible slip: create_track does not apply the manager's settings.
NewTrackDefault(m, v) ==
    [muted |-> FALSE, volume |-> FullScale, born |-> [muted |-> m, volume |-> v]]

\* create_track: AudioCaptureTrack(), set_muted(self.muted),
\* set_volume(self.volume); born is the manager's setting at that time.
NewTrack(m, v) ==
    [muted |-> m, volume |-> ClampVolume(v), born |-> [muted |-> m, volume |-> v]]

NoPull == [track |-> 0, in |-> 0, muted |-> FALSE, volume |-> FullScale, out |-> 0]

\* AudioManager.__init__
MixInit ==
    /\ am_muted = FALSE
    /\ am_volume = FullScale
    /\ track_settings = <<>>
    /\ lastPull = NoPull

\* AudioManager.create_track
AmCreateTrack ==
    /\ Len(track_settings) < MaxMixTracks
    /\ track_settings' = Append(track_settings, NewTrack(am_muted, am_volume))
    /\ UNCHANGED <<am_muted, am_volume, lastPull>>

\* AudioManager.set_muted
AmSetMuted(m) ==
    /\ am_muted' = m
    /\ track_settings' = [i \in DOMAIN track_settings |->
                            [track_settings[i] EXCEPT !.muted = m]]
    /\ UNCHANGED <<am_volume, lastPull>>

\* AudioManager.set_volume
AmSetVolume(v) ==
    /\ am_volume' = v
    /\ track_settings' = [i \in DOMAIN track_settings |->
                            [track_settings[i] EXCEPT !.volume = ClampVolume(v)]]
    /\ UNCHANGED <<am_muted, lastPull>>

\* The integer part of a / b (b > 0), as a conversion to an integer takes it.
TruncDiv(a, b) == IF a >= 0 THEN a \div b ELSE 0 - ((0 - a) \div b)

\* audio_data * self._volume * 32767, its fraction dropped by astype.
Scaled(sample, volume) ==
    TruncDiv(sample * volume * Int16Scale, FullScale * FullScale)

Wrap16(x) == ((x - Int16Min) % 65536) + Int16Min
Saturate16(x) == MaxOf(Int16Min, MinOf(Int16Max, x))

\* astype(np.int16) of a float: the value when it fits; beyond the range the
\* conversion is not defined, and a build gives the low 16 bits or the
\* nearest end of the range.
AsInt16(x) ==
    IF Int16Min <= x /\ x <= Int16Max THEN {x} ELSE {Wrap16(x), Saturate16(x)}

\* recv of track i on a sample of the block it took: mute or volume, then
\* the conversion to int16.
MixPull(i, sample) ==
    /\ i \in DOMAIN track_settings
    /\ LET t == track_settings[i]
           scaled == IF t.muted THEN 0 ELSE Scaled(sample, t.volume)
       IN  \E out \in AsInt16(scaled) :
               lastPull' = [track |-> i, in |-> sample, muted |-> t.muted,
                            volume |-> t.volume, out |-> out]
    /\ UNCHANGED <<am_muted, am_volume, track_settings>>

\* ------------------------------------------------------------------------
\* ScreenVideoTrack (webrtc_server.py)
\* ------------------------------------------------------------------------
VideoInit ==
    /\ video_timestamp = 0
    /\ video_pc = "idle"
    /\ video_pts = 0
    /\ video_out = <<>>
    /\ video_failed = 0
    /\ video_last = "none"

\* recv, up to the screen grab: next_timestamp() is aiortc's.  It advances
\* _timestamp by one frame of the video clock and returns it; it can also
\* raise (the track has ended, or its own state is missing), with the
\* timestamp advanced or not.
VideoRecvStart ==
    /\ video_pc = "idle"
    /\ Len(video_out) + video_failed < MaxVideoPulls
    /\ \/ /\ video_timestamp' = video_timestamp + VideoPtsStep
          /\ video_pts' = video_timestamp + VideoPtsStep
          /\ video_pc' = "grabbing"
          /\ UNCHANGED <<video_out, video_failed, video_last>>
       \/ /\ video_timestamp' \in {video_timestamp, video_timestamp + VideoPtsStep}
          /\ video_failed' = video_failed + 1
          /\ video_last' = "raised"
          /\ UNCHANGED <<video_pc, video_pts, video_out>>

\* recv, from the screen grab on: get_frame returns and the frame is
\* stamped with the pts, or get_frame raises and so does recv.
VideoRecvFinish ==
    /\ video_pc = "grabbing"
    /\ video_pc' = "idle"
    /\ \/ /\ video_out' = Append(video_out, [pts |-> video_pts, prev |-> video_last])
          /\ video_last' = "frame"
          /\ UNCHANGED video_failed
       \/ /\ video_failed' = video_failed + 1
          /\ video_last' = "grab_failed"
          /\ UNCHANGED video_out
    /\ UNCHANGED <<video_timestamp, video_pts>>

\* ------------------------------------------------------------------------
\* WebRTCManager (webrtc_server.py) and the signaling endpoints (server.py)
\* ------------------------------------------------------------------------
\* RTCPeerConnection is aiortc's: its calls are modelled by their effect on
\* the states the manager reads (signaling, ICE gathering, connection), each
\* call one step.
MaxPcs == MaxOf(MaxOf(MaxOf(MaxConns, MaxFairConns), MaxOf(MaxCloseConns, MaxShutdownConns)),
                MaxOf(MaxOf(MaxSettingsConns, MaxLoopConns),
                      MaxOf(MaxMonitorConns, MaxProducerConns)))

PcIds == 1..MaxPcs

\* The descriptions a client posts to /webrtc/answer: the answer to the
\* offer it was given, or a well-formed answer whose media sections are not
\* the offer's.
AnswerKinds == {"matching", "mismatched"}

\* The descriptions a client posts to /webrtc/connect.
OfferKinds == {"valid", "malformed"}

\* The pc_id values a client posts: the ids the server gives out, and 0, an
\* id it never gives out.
AnswerIds == PcIds \cup {0}

NoAnswer == [id |-> 0, known |-> FALSE, before |-> "none", answer |-> "none",
             error |-> "none", changed |-> FALSE, calls |-> 0]

NoCleanup == [op |-> "none", repeat |-> FALSE, changed |-> FALSE, raised |-> FALSE]

\* A pair of video settings.
Settings(f, w) == [fps |-> f, max_width |-> w]

\* No frame made yet.
NoFrame == [made |-> FALSE, start |-> Settings(DefaultFps, DefaultMaxWidth),
            used |-> Settings(DefaultFps, DefaultMaxWidth), raised |-> FALSE,
            monitor |-> DefaultMonitor, epoch |-> 0]

\* The ScreenCapture objects: the one server.py makes and the one
\* WebRTCManager.__init__ makes.
CaptureObjects == {"server", "manager"}

\* A plausible slip: the manager keeps one audio track and hands it out.
CreateTrackShared(list) == 1

\* audio_manager.create_track(): a new AudioCaptureTrack each call, appended
\* to active_tracks (the object is named by its place in that list).
CreateTrack(list) == Len(list) + 1

\* The tracks create_offer and handle_offer add to the n-th connection: a
\* new ScreenVideoTrack and, with audio, a track of the audio manager.
AddedTracks(n, audio, list) ==
    {[kind |-> "video", track |-> n]}
    \cup (IF audio THEN {[kind |-> "audio", track |-> CreateTrack(list)]} ELSE {})

\* An argument that may be left out (None): given, and its value.
None == [given |-> FALSE, v |-> 0]
Some(x) == [given |-> TRUE, v |-> x]
Optional(S) == {None} \cup {Some(x) : x \in S}

\* No select_monitor call yet.
NoSel == [called |-> FALSE, index |-> DefaultMonitor, status |-> "none",
          index_before |-> DefaultMonitor, region_before |-> DefaultMonitor]

\* No control-channel message yet.
NoMessage == [pc |-> 0, kind |-> "none", type |-> "none", updated |-> FALSE,
              forwarded |-> FALSE, before |-> Settings(DefaultFps, DefaultMaxWidth),
              after |-> Settings(DefaultFps, DefaultMaxWidth)]

\* What a cleanup call is observed on: the live set, the channel list and
\* the connections' states.
Observed(live, chans, sig, conn) == <<live, chans, sig, conn>>

RtcInit ==
    /\ pc_count = 0
    /\ signalingState = [c \in PcIds |-> "none"]
    /\ iceGatheringState = [c \in PcIds |-> "new"]
    /\ connectionState = [c \in PcIds |-> "new"]
    /\ negotiated = [c \in PcIds |-> FALSE]
    /\ op_kind = [c \in PcIds |-> "none"]
    /\ op_pc = [c \in PcIds |-> "none"]
    /\ wait_end = [c \in PcIds |-> "none"]
    /\ ice_handler = [c \in PcIds |-> FALSE]
    /\ gathering_complete = [c \in PcIds |-> FALSE]
    /\ state_handler = [c \in PcIds |-> FALSE]
    /\ peer_connections = {}
    /\ data_channels = <<>>
    /\ active_pcs = {}
    /\ cleanup_pc = "idle"
    /\ cleanup_list = {}
    /\ ice_bound = [c \in PcIds |-> "off"]
    /\ lastAnswer = NoAnswer
    /\ audio_enabled \in BOOLEAN
    /\ pc_audio = [c \in PcIds |-> "none"]
    /\ active_tracks = <<>>
    /\ sender_started = [c \in PcIds |-> FALSE]
    /\ cleanup_calls = [c \in PcIds |-> 0]
    /\ all_calls = 0
    /\ cleanup_snap = <<>>
    /\ lastCleanup = NoCleanup
    /\ fps = DefaultFps
    /\ max_width = DefaultMaxWidth
    /\ track_fps = [c \in PcIds |-> DefaultFps]
    /\ track_max_width = [c \in PcIds |-> DefaultMaxWidth]
    /\ video_settings = [fps |-> DefaultFps, quality |-> DefaultQuality,
                         max_width |-> DefaultMaxWidth]
    /\ track_capture = [c \in PcIds |-> "manager"]
    /\ senders = [c \in PcIds |-> {}]
    /\ capture_monitor = [o \in CaptureObjects |-> DefaultMonitor]
    /\ monitor_index = [o \in CaptureObjects |-> DefaultMonitor]
    /\ lastSel = NoSel
    /\ mgr_capture = "manager"
    /\ switch_count = 0
    /\ recv_pc = [c \in PcIds |-> "idle"]
    /\ recv_grab = [c \in PcIds |-> DefaultMonitor]
    /\ recv_epoch = [c \in PcIds |-> 0]
    /\ recv_start = [c \in PcIds |-> Settings(DefaultFps, DefaultMaxWidth)]
    /\ lastFrame = [c \in PcIds |-> NoFrame]
    /\ lastMessage = NoMessage
    /\ settings_updates = 0

\* pc.close() on the connections of S.  A connection already closed is left
\* alone; the others become closed, announce it (the on_connectionstatechange
\* task is scheduled) and then lose all their listeners.
ClosedSignaling(S) ==
    [c \in PcIds |-> IF c \in S THEN "closed" ELSE signalingState[c]]

ClosedConnection(S) ==
    [c \in PcIds |-> IF c \in S /\ signalingState[c] # "closed" THEN "closed"
                     ELSE connectionState[c]]

ClosedStateHandler(S, h) ==
    [c \in PcIds |-> IF c \in S /\ signalingState[c] # "closed" THEN TRUE ELSE h[c]]

ClosedIceHandler(S) ==
    [c \in PcIds |-> IF c \in S THEN FALSE ELSE ice_handler[c]]

\* pc.close() stops the RTP senders that were started, and a sender that
\* stops calls stop() on its track: AudioCaptureTrack.stop clears _running
\* and joins the capture thread for at most 1 s.  A sender that was never
\* started (the transport never came up) has nothing to stop, and nothing
\* else in the manager calls stop().
ClosedAudio(S) ==
    [c \in PcIds |-> IF /\ c \in S
                        /\ signalingState[c] # "closed"
                        /\ sender_started[c]
                        /\ pc_audio[c] = "capturing"
                     THEN "stopping" ELSE pc_audio[c]]

\* The capture loop of a stopped track sees _running false and ends.
AudioThreadExit(c) ==
    /\ pc_audio[c] = "stopping"
    /\ pc_audio' = [pc_audio EXCEPT ![c] = "ended"]
    /\ UNCHANGED <<pcVars, opVars, mgrVars, cleanupVars, state_handler, audio_enabled, active_tracks, sender_started>>
    /\ UNCHANGED trackVars

\* create_webrtc_offer -> create_offer, up to `await pc.createOffer()`: the
\* connection is made and added to the live set, the tracks and the control
\* channel are attached, the handlers registered.
CreateOfferStart ==
    LET c == pc_count + 1
    IN  /\ c \in PcIds
        /\ pc_count' = c
        /\ signalingState' = [signalingState EXCEPT ![c] = "stable"]
        /\ op_kind' = [op_kind EXCEPT ![c] = "create_offer"]
        /\ op_pc' = [op_pc EXCEPT ![c] = "set_local"]
        /\ peer_connections' = peer_connections \cup {c}
        /\ data_channels' = Append(data_channels, c)
        /\ UNCHANGED <<iceGatheringState, connectionState, negotiated, wait_end,
                       ice_handler, gathering_complete, state_handler, active_pcs,
                       cleanupVars>>
        /\ pc_audio' = [pc_audio EXCEPT ![c] = IF audio_enabled THEN "capturing" ELSE "none"]
        /\ active_tracks' = IF audio_enabled THEN Append(active_tracks, c) ELSE active_tracks
        /\ UNCHANGED <<audio_enabled, sender_started>>
        /\ track_fps' = [track_fps EXCEPT ![c] = fps]
        /\ track_max_width' = [track_max_width EXCEPT ![c] = max_width]
        /\ track_capture' = [track_capture EXCEPT ![c] = mgr_capture]
        /\ senders' = [senders EXCEPT ![c] = AddedTracks(c, audio_enabled, active_tracks)]

\* handle_client_offer -> handle_offer, up to the end of
\* `await pc.setRemoteDescription(offer)`: a malformed offer raises, and the
\* endpoint answers with the error; the connection stays in the live set.
HandleOfferStart(o) ==
    LET c == pc_count + 1
    IN  /\ c \in PcIds
        /\ pc_count' = c
        /\ signalingState' = [signalingState EXCEPT
                                 ![c] = IF o = "valid" THEN "have-remote-offer"
                                        ELSE "stable"]
        /\ op_kind' = [op_kind EXCEPT ![c] = "handle_offer"]
        /\ op_pc' = [op_pc EXCEPT ![c] = IF o = "valid" THEN "set_local" ELSE "raised"]
        /\ peer_connections' = peer_connections \cup {c}
        /\ UNCHANGED <<iceGatheringState, connectionState, negotiated, wait_end,
                       ice_handler, gathering_complete, state_handler, data_channels,
                       active_pcs, cleanupVars>>
        /\ pc_audio' = [pc_audio EXCEPT ![c] = IF audio_enabled THEN "capturing" ELSE "none"]
        /\ active_tracks' = IF audio_enabled THEN Append(active_tracks, c) ELSE active_tracks
        /\ UNCHANGED <<audio_enabled, sender_started>>
        /\ track_fps' = [track_fps EXCEPT ![c] = fps]
        /\ track_max_width' = [track_max_width EXCEPT ![c] = max_width]
        /\ track_capture' = [track_capture EXCEPT ![c] = mgr_capture]
        /\ senders' = [senders EXCEPT ![c] = AddedTracks(c, audio_enabled, active_tracks)]

\* _wait_for_ice_gathering: `if pc.iceGatheringState == "complete": return`
AlreadyComplete(g) == g = "complete"

\* The signaling state setLocalDescription leaves: the local offer of
\* create_offer, the local answer of handle_offer.
LocalSignaling(kind) ==
    IF kind = "create_offer" THEN "have-local-offer" ELSE "stable"

\* createOffer/createAnswer, setLocalDescription and, when that returns, in
\* the same scheduler step, the start of _wait_for_ice_gathering: the state
\* test, and either the return or the registration of the handler and the
\* start of the timed wait.  On a closed connection the first call raises.
\* setLocalDescription starts the gathering and may return with it complete.
SetLocalAndWait(c) ==
    /\ op_pc[c] = "set_local"
    /\ IF signalingState[c] = "closed"
       THEN /\ op_pc' = [op_pc EXCEPT ![c] = "raised"]
            /\ UNCHANGED <<signalingState, iceGatheringState, negotiated, wait_end,
                           ice_handler, active_pcs>>
       ELSE \E g \in {"gathering", "complete"} :
            /\ signalingState' = [signalingState EXCEPT ![c] = LocalSignaling(op_kind[c])]
            /\ negotiated' = [negotiated EXCEPT ![c] = (op_kind[c] = "handle_offer")]
            /\ iceGatheringState' = [iceGatheringState EXCEPT ![c] = g]
            /\ IF AlreadyComplete(g)
               THEN /\ op_pc' = [op_pc EXCEPT ![c] = "done"]
                    /\ wait_end' = [wait_end EXCEPT ![c] = "complete"]
                    /\ active_pcs' = active_pcs \cup {c}
                    /\ UNCHANGED ice_handler
               ELSE /\ op_pc' = [op_pc EXCEPT ![c] = "waiting"]
                    /\ ice_handler' = [ice_handler EXCEPT ![c] = TRUE]
                    /\ UNCHANGED <<wait_end, active_pcs>>
    /\ UNCHANGED <<pc_count, connectionState, op_kind, gathering_complete,
                   state_handler, peer_connections, data_channels, cleanupVars>>
    /\ UNCHANGED resVars
    /\ UNCHANGED trackVars

\* The ICE agent finishes gathering: the state becomes complete and the
\* registered handler, called at once, sets the event.
GatheringCompletes(c) ==
    /\ iceGatheringState[c] = "gathering"
    /\ signalingState[c] # "closed"
    /\ iceGatheringState' = [iceGatheringState EXCEPT ![c] = "complete"]
    /\ gathering_complete' = [gathering_complete EXCEPT ![c] = @ \/ ice_handler[c]]
    /\ UNCHANGED <<pc_count, signalingState, connectionState, negotiated, op_kind,
                   op_pc, wait_end, ice_handler, state_handler, mgrVars, cleanupVars>>
    /\ UNCHANGED resVars
    /\ UNCHANGED trackVars

\* The operation returns to its endpoint, which records the connection.
WaitReturn(c, how) ==
    /\ op_pc' = [op_pc EXCEPT ![c] = "done"]
    /\ wait_end' = [wait_end EXCEPT ![c] = how]
    /\ active_pcs' = active_pcs \cup {c}
    /\ UNCHANGED <<pcVars, op_kind, ice_handler, gathering_complete, state_handler,
                   peer_connections, data_channels, cleanupVars>>
    /\ UNCHANGED resVars
    /\ UNCHANGED trackVars

\* wait_for returns because the event is set.
WaitEndsByEvent(c) ==
    /\ op_pc[c] = "waiting"
    /\ gathering_complete[c]
    /\ WaitReturn(c, "event")

\* A plausible slip: the event is awaited without a timeout.
TimeoutCanFireNever(p, ev) == FALSE

\* asyncio.wait_for(gathering_complete.wait(), timeout=5.0): the timer
\* fires while the event is not set.
TimeoutCanFire(p, ev) == p = "waiting" /\ ~ev

\* wait_for raises TimeoutError, which the wait catches: the operation goes
\* on with the description as it is.
WaitTimesOut(c) ==
    /\ TimeoutCanFire(op_pc[c], gathering_complete[c])
    /\ WaitReturn(c, "timeout")

\* A plausible slip: every connection that is not closed takes an answer.
CanApplyAnswerUnlessClosed(sig) == sig # "closed"

\* pc.setRemoteDescription(answer) checks the signaling state first: an
\* answer is taken in have-local-offer (or have-remote-pranswer) only.
CanApplyAnswer(sig) == sig \in {"have-local-offer", "have-remote-pranswer"}

\* What receive_webrtc_answer reports: "none" is {"status": "connected"}.
AnswerError(known, sig, a) ==
    IF ~known THEN "Invalid pc_id"
    ELSE IF ~CanApplyAnswer(sig) THEN "InvalidStateError"
    ELSE IF a = "mismatched" THEN "ValueError"
    ELSE "none"

\* A plausible slip: the answer is checked but not applied.
SignalingAfterAnswerKept(sig) == sig

\* The signaling state an applied answer leaves.
SignalingAfterAnswer(sig) == "stable"

\* receive_webrtc_answer -> handle_answer: an id that is not a key of
\* active_pcs is refused by the endpoint; otherwise the answer goes to
\* setRemoteDescription, and what that raises is caught and reported.
ReceiveWebrtcAnswer(id, a) ==
    LET known == id \in active_pcs
        before == IF id \in PcIds THEN signalingState[id] ELSE "none"
        err == AnswerError(known, before, a)
    IN  /\ IF err = "none"
           THEN /\ signalingState' = [signalingState EXCEPT
                                         ![id] = SignalingAfterAnswer(before)]
                /\ negotiated' = [negotiated EXCEPT ![id] = TRUE]
           ELSE UNCHANGED <<signalingState, negotiated>>
        /\ UNCHANGED <<pc_count, iceGatheringState, connectionState, opVars,
                       state_handler, mgrVars, cleanupVars>>
        /\ UNCHANGED resVars
        /\ UNCHANGED trackVars

\* The transport (ICE checks, then DTLS) starts once the connection has its
\* two descriptions.
TransportStarts(c) ==
    /\ negotiated[c]
    /\ connectionState[c] = "new"
    /\ signalingState[c] # "closed"
    /\ connectionState' = [connectionState EXCEPT ![c] = "connecting"]
    /\ UNCHANGED <<pc_count, signalingState, iceGatheringState, negotiated, opVars,
                   state_handler, mgrVars, cleanupVars>>
    /\ UNCHANGED resVars
    /\ UNCHANGED trackVars

\* The transport is established.
TransportConnects(c) ==
    /\ connectionState[c] = "connecting"
    /\ connectionState' = [connectionState EXCEPT ![c] = "connected"]
    /\ UNCHANGED <<pc_count, signalingState, iceGatheringState, negotiated, opVars,
                   state_handler, mgrVars, cleanupVars>>
    /\ sender_started' = [sender_started EXCEPT ![c] = TRUE]
    /\ UNCHANGED <<audio_enabled, pc_audio, active_tracks>>
    /\ UNCHANGED trackVars

\* The transport fails (no route to the peer, handshake failure, consent
\* lost): on_connectionstatechange is scheduled.
TransportFails(c) ==
    /\ connectionState[c] \in {"connecting", "connected"}
    /\ connectionState' = [connectionState EXCEPT ![c] = "failed"]
    /\ state_handler' = [state_handler EXCEPT ![c] = TRUE]
    /\ UNCHANGED <<pc_count, signalingState, iceGatheringState, negotiated, opVars,
                   mgrVars, cleanupVars>>
    /\ UNCHANGED resVars
    /\ UNCHANGED trackVars

\* A plausible slip: an unguarded peer_connections.remove(pc).
CleanupRaisesWhenAbsent(c, live) == c \notin live

\* cleanup_peer_connection: `if pc in self.peer_connections: discard` raises
\* for no connection.
CleanupRaises(c, live) == FALSE

\* on_connectionstatechange -> cleanup_peer_connection: a failed or closed
\* connection still in the live set is taken out of it and closed.
OnConnectionStateChange(c) ==
    /\ state_handler[c]
    /\ IF connectionState[c] \in {"failed", "closed"} /\ c \in peer_connections
       THEN /\ peer_connections' = peer_connections \ {c}
            /\ signalingState' = ClosedSignaling({c})
            /\ connectionState' = ClosedConnection({c})
            /\ ice_handler' = ClosedIceHandler({c})
            /\ state_handler' = ClosedStateHandler({c},
                                    [state_handler EXCEPT ![c] = FALSE])
            /\ pc_audio' = ClosedAudio({c})
       ELSE /\ state_handler' = [state_handler EXCEPT ![c] = FALSE]
            /\ UNCHANGED <<peer_connections, signalingState, connectionState,
                           ice_handler, pc_audio>>
    /\ UNCHANGED <<pc_count, iceGatheringState, negotiated, op_kind, op_pc, wait_end,
                   gathering_complete, data_channels, active_pcs, cleanupVars>>
    /\ UNCHANGED <<audio_enabled, active_tracks, sender_started>>
    /\ UNCHANGED trackVars

\* shutdown_event -> cleanup_all, up to the first close: list(peer_connections)
\* is taken; an empty live set is cleared at once.
CleanupAllStart ==
    /\ cleanup_pc \in {"idle", "done"}
    /\ cleanup_list' = peer_connections
    /\ IF peer_connections = {}
       THEN /\ cleanup_pc' = "done"
            /\ data_channels' = <<>>
       ELSE /\ cleanup_pc' = "closing"
            /\ UNCHANGED data_channels
    /\ UNCHANGED <<pcVars, opVars, state_handler, peer_connections, active_pcs>>
    /\ UNCHANGED resVars
    /\ UNCHANGED trackVars

\* cleanup_all: `await pc.close()` for one connection of the list (a set is
\* listed in no particular order); after the last one the live set and the
\* channel list are cleared.
CleanupAllClose(c) ==
    /\ cleanup_pc = "closing"
    /\ c \in cleanup_list
    /\ cleanup_list' = cleanup_list \ {c}
    /\ signalingState' = ClosedSignaling({c})
    /\ connectionState' = ClosedConnection({c})
    /\ ice_handler' = ClosedIceHandler({c})
    /\ state_handler' = ClosedStateHandler({c}, state_handler)
    /\ IF cleanup_list = {c}
       THEN /\ cleanup_pc' = "done"
            /\ peer_connections' = {}
            /\ data_channels' = <<>>
       ELSE UNCHANGED <<cleanup_pc, peer_connections, data_channels>>
    /\ UNCHANGED <<pc_count, iceGatheringState, negotiated, op_kind, op_pc, wait_end,
                   gathering_complete, active_pcs>>
    /\ pc_audio' = ClosedAudio({c})
    /\ UNCHANGED <<audio_enabled, active_tracks, sender_started>>
    /\ UNCHANGED trackVars

\* ------------------------------------------------------------------------
\* Video settings
\* `if fps:` of ScreenVideoTrack.update_settings: an integer is true unless 0.
Truthy(x) == x # 0

\* ScreenVideoTrack.update_settings for one value: taken when it is truthy.
TrackUpdate(new, old) == IF Truthy(new) THEN new ELSE old

\* WebRTCManager.update_settings(fps=f, max_width=w): a value that is not
\* None is stored; then the video track of every connection of the live set
\* is updated with the manager's values.
UpdateSettings(f, w) ==
    LET nf == IF f.given THEN f.v ELSE fps
        nw == IF w.given THEN w.v ELSE max_width
    IN  /\ fps' = nf
        /\ max_width' = nw
        /\ track_fps' = [c \in PcIds |-> IF c \in peer_connections
                                          THEN TrackUpdate(nf, track_fps[c])
                                          ELSE track_fps[c]]
        /\ track_max_width' = [c \in PcIds |-> IF c \in peer_connections
                                                THEN TrackUpdate(nw, track_max_width[c])
                                                ELSE track_max_width[c]]
        /\ UNCHANGED <<track_capture, senders>>

\* max(lo, min(hi, x))
Clamp(lo, hi, x) == MaxOf(lo, MinOf(hi, x))

\* POST /settings/video: the three values are clamped and stored, and the
\* clamped fps and max_width go to the manager.
UpdateVideoSettings(f, q, w) ==
    LET cf == Clamp(MinFps, MaxFps, f)
        cq == Clamp(MinQuality, MaxQuality, q)
        cw == Clamp(MinMaxWidth, MaxMaxWidth, w)
    IN  /\ video_settings' = [fps |-> cf, quality |-> cq, max_width |-> cw]
        /\ UpdateSettings(Some(cf), Some(cw))
        /\ settings_updates' = settings_updates + 1
        /\ UNCHANGED <<recv_pc, recv_start, recv_grab, recv_epoch, lastFrame, lastMessage>>
        /\ UNCHANGED <<pcVars, opVars, mgrVars, cleanupVars, state_handler, resVars>>

\* on_datachannel of a connection made by handle_offer: the channel the
\* peer opened is added to the channel list and gets its message handler.
OnDataChannel(c) ==
    /\ op_kind[c] = "handle_offer"
    /\ connectionState[c] = "connected"
    /\ \A i \in 1..Len(data_channels) : data_channels[i] # c
    /\ data_channels' = Append(data_channels, c)
    /\ UNCHANGED <<pcVars, opVars, peer_connections, active_pcs, cleanupVars,
                   state_handler, resVars, trackVars, settingsVars>>

\* The control channel of c is open: the one create_offer made, or the one
\* the peer opened on a connection of handle_offer.
ChannelOpen(c) ==
    /\ connectionState[c] = "connected"
    /\ \E i \in 1..Len(data_channels) : data_channels[i] = c

\* on_message of create_offer's channel takes a config message as settings;
\* every other message, and every message on a channel of handle_offer,
\* goes to execute_command.
TakenAsConfig(kind, t) == kind = "create_offer" /\ t = "config"

\* on_message(message) on the control channel of c, for a message of type t
\* whose data holds fps f and max_width w (None: the key is missing).
OnMessage(c, t, f, w) ==
    /\ ChannelOpen(c)
    /\ IF TakenAsConfig(op_kind[c], t)
       THEN UpdateSettings(f, w)
       ELSE UNCHANGED <<fps, max_width, trackVars>>
    /\ lastMessage' = [pc |-> c, kind |-> op_kind[c], type |-> t,
                       updated |-> TakenAsConfig(op_kind[c], t),
                       forwarded |-> ~TakenAsConfig(op_kind[c], t),
                       before |-> Settings(fps, max_width),
                       after |-> Settings(fps', max_width')]
    /\ settings_updates' = settings_updates + 1
    /\ UNCHANGED <<video_settings, recv_pc, recv_start, recv_grab, recv_epoch, lastFrame>>
    /\ UNCHANGED <<pcVars, opVars, mgrVars, cleanupVars, state_handler, resVars>>

\* recv of c's video track, up to the capture handed to the executor: the
\* sender of a connected connection pulls the next frame.
RecvStart(c) ==
    /\ connectionState[c] = "connected"
    /\ recv_pc[c] = "idle"
    /\ recv_pc' = [recv_pc EXCEPT ![c] = "capturing"]
    /\ recv_start' = [recv_start EXCEPT ![c] = Settings(track_fps[c], track_max_width[c])]
    /\ recv_epoch' = [recv_epoch EXCEPT ![c] = switch_count]
    /\ UNCHANGED <<fps, max_width, video_settings, recv_grab, lastFrame, lastMessage,
                   settings_updates, trackVars>>
    /\ UNCHANGED <<pcVars, opVars, mgrVars, cleanupVars, state_handler, resVars>>

\* screen_capture.get_frame on the worker thread: sct.grab(self.monitor) of
\* the ScreenCapture object the track holds.
GetFrame(c) ==
    /\ recv_pc[c] = "capturing"
    /\ recv_pc' = [recv_pc EXCEPT ![c] = "grabbed"]
    /\ recv_grab' = [recv_grab EXCEPT ![c] = capture_monitor[track_capture[c]]]
    /\ UNCHANGED <<fps, max_width, video_settings, recv_start, recv_epoch, lastFrame,
                   lastMessage, settings_updates, trackVars>>
    /\ UNCHANGED <<pcVars, opVars, mgrVars, cleanupVars, state_handler, resVars>>

\* recv after the capture: the frame is resized to self.max_width and the
\* pull sleeps 1 / self.fps, both read now.  cv2.resize raises for a width
\* that is not positive, the division for fps 0.
RecvFinish(c) ==
    /\ recv_pc[c] = "grabbed"
    /\ recv_pc' = [recv_pc EXCEPT ![c] = "idle"]
    /\ lastFrame' = [lastFrame EXCEPT
                        ![c] = [made |-> TRUE, start |-> recv_start[c],
                                used |-> Settings(track_fps[c], track_max_width[c]),
                                raised |-> track_max_width[c] <= 0 \/ track_fps[c] = 0,
                                monitor |-> recv_grab[c], epoch |-> recv_epoch[c]]]
    /\ UNCHANGED <<fps, max_width, video_settings, recv_start, recv_grab, recv_epoch,
                   lastMessage, settings_updates, trackVars>>
    /\ UNCHANGED <<pcVars, opVars, mgrVars, cleanupVars, state_handler, resVars>>

\* A plausible slip: recv calls get_frame itself, on the event loop.
LoopBusyWhileGrabbing(pcs) == \E c \in PcIds : pcs[c] = "capturing"

\* `await loop.run_in_executor(None, get_frame)`: the grab runs on a worker
\* thread and recv is suspended at the await, so a pull that is capturing
\* does not occupy the event loop.
LoopBusy(pcs) == FALSE

\* A handler or a coroutine step runs when the event loop is free.
OnLoop(A) == ~LoopBusy(recv_pc) /\ A

\* ------------------------------------------------------------------------
\* Monitors
\* _monitors_info has an entry for index 0 (all monitors) and one for each
\* of the MonitorCount monitors.
\* A plausible slip: the upper test is `>` in place of `>=`.
ValidMonitorInclusive(i) == 0 <= i /\ i <= MonitorCount + 1

\* select_monitor: not (monitor_index < 0 or monitor_index >= len(_monitors_info))
ValidMonitor(i) == 0 <= i /\ i <= MonitorCount

\* POST /monitors/select -> screen_capture.select_monitor(i) on the
\* server's ScreenCapture: an index outside the list is answered with an
\* error; otherwise _monitor_index and the region become those of monitor i
\* and, the status being ok, the manager is given the server's object.
SelectMonitor(i) ==
    /\ IF ValidMonitor(i)
       THEN /\ monitor_index' = [monitor_index EXCEPT !["server"] = i]
            /\ capture_monitor' = [capture_monitor EXCEPT !["server"] = i]
            /\ mgr_capture' = "server"
            /\ switch_count' = switch_count + 1
       ELSE UNCHANGED <<monitor_index, capture_monitor, mgr_capture, switch_count>>
    /\ UNCHANGED <<pcVars, opVars, mgrVars, cleanupVars, state_handler, resVars,
                   trackVars, settingsVars>>

\* ------------------------------------------------------------------------
\* Hardware encoders
EncoderInfo(t, n, c, a) == [encoder_type |-> t, name |-> n, codec |-> c, available |-> a]

\* A plausible slip: the software entry is registered without its flag.
SoftwareEncoderUnflagged == EncoderInfo("software", "libx264", "h264", FALSE)

\* The software encoder, always registered and available.
SoftwareEncoder == EncoderInfo("software", "libx264", "h264", TRUE)

\* None, where an EncoderInfo is expected.
NoEncoder == EncoderInfo("none", "none", "none", FALSE)

\* The hardware backends, in the order _detect_encoders looks for them.
HardwareBackends ==
    << [encoder_type |-> "nvenc", name |-> "h264_nvenc", codec |-> "h264"],
       [encoder_type |-> "nvenc", name |-> "hevc_nvenc", codec |-> "hevc"],
       [encoder_type |-> "quicksync", name |-> "h264_qsv", codec |-> "h264"],
       [encoder_type |-> "amf", name |-> "h264_amf", codec |-> "h264"],
       [encoder_type |-> "videotoolbox", name |-> "h264_videotoolbox", codec |-> "h264"] >>

HardwareNames == {HardwareBackends[i].name : i \in 1..Len(HardwareBackends)}

\* What the machine answers: whether ffmpeg is in PATH, whether
\* `ffmpeg -encoders` runs ("raises": it fails or times out), the backends
\* its output lists and those of them whose smoke test exits with 0.
NoFfmpeg == [ffmpeg |-> FALSE, query |-> "none", listed |-> {}, working |-> {}]

Probes ==
    {NoFfmpeg, [ffmpeg |-> TRUE, query |-> "raises", listed |-> {}, working |-> {}]}
    \cup UNION {{[ffmpeg |-> TRUE, query |-> "ok", listed |-> l, working |-> w] :
                    w \in SUBSET l} : l \in SUBSET HardwareNames}

\* A plausible slip: a backend that ffmpeg lists is taken to work.
TestEncoderSkipped(p, n) == p.ffmpeg

\* _test_encoder: False without ffmpeg, else whether the test run exits
\* with 0 (a run that raises counts as failed).
TestEncoder(p, n) == p.ffmpeg /\ n \in p.working

\* The entries _detect_encoders appends for the backends from the i-th on.
RECURSIVE Detected(_, _)
Detected(p, i) ==
    IF i > Len(HardwareBackends) THEN <<>>
    ELSE LET b == HardwareBackends[i]
             e == EncoderInfo(b.encoder_type, b.name, b.codec, TestEncoder(p, b.name))
         IN  (IF b.name \in p.listed THEN <<e>> ELSE <<>>) \o Detected(p, i + 1)

\* _detect_encoders, the list: the software encoder, then, when ffmpeg is
\* there and the query runs, the listed backends.
DetectEncoders(p) ==
    <<SoftwareEncoder>> \o (IF p.ffmpeg /\ p.query = "ok" THEN Detected(p, 1) ELSE <<>>)

\* _select_best_encoder: the priority of the encoder types.
Priority == <<"nvenc", "quicksync", "amf", "videotoolbox", "software">>

\* The first available encoder of type t from the i-th entry on.
RECURSIVE FirstAvailable(_, _, _)
FirstAvailable(list, t, i) ==
    IF i > Len(list) THEN NoEncoder
    ELSE IF list[i].encoder_type = t /\ list[i].available THEN list[i]
    ELSE FirstAvailable(list, t, i + 1)

\* The first hit of the priority loop from the k-th type on.
RECURSIVE BestByPriority(_, _)
BestByPriority(list, k) ==
    IF k > Len(Priority) THEN NoEncoder
    ELSE LET e == FirstAvailable(list, Priority[k], 1)
         IN  IF e # NoEncoder THEN e ELSE BestByPriority(list, k + 1)

\* The fallback loop: the first software entry, available or not.
RECURSIVE FirstSoftware(_, _)
FirstSoftware(list, i) ==
    IF i > Len(list) THEN NoEncoder
    ELSE IF list[i].encoder_type = "software" THEN list[i]
    ELSE FirstSoftware(list, i + 1)

\* _select_best_encoder: what _selected_encoder is afterwards.
SelectBestEncoder(list, sel) ==
    LET b == BestByPriority(list, 1)
        s == FirstSoftware(list, 1)
    IN  IF b # NoEncoder THEN b ELSE IF s # NoEncoder THEN s ELSE sel

\* No request to select an encoder yet.
NoSelect == [called |-> FALSE, name |-> "", status |-> "none",
             before |-> NoEncoder, after |-> NoEncoder]

\* HardwareEncoderManager(): _detect_encoders on a machine that answers p.
\* Without ffmpeg the software encoder is selected at once; otherwise
\* _select_best_encoder chooses.
EncInit(p) ==
    /\ probe = p
    /\ ffmpeg_path = p.ffmpeg
    /\ available_encoders = DetectEncoders(p)
    /\ selected_encoder = IF ~p.ffmpeg THEN DetectEncoders(p)[1]
                          ELSE SelectBestEncoder(DetectEncoders(p), NoEncoder)
    /\ lastSelect = NoSelect
    /\ select_ok = FALSE
    /\ select_error = FALSE

\* A plausible slip: the name is matched and the smoke test's result forgotten.
SelectableByName(e, n) == e.name = n

\* select_encoder: `encoder.name == encoder_name and encoder.available`
Selectable(e, n) == e.name = n /\ e.available

\* The first entry select_encoder accepts for n from the i-th on.
RECURSIVE FirstSelectable(_, _, _)
FirstSelectable(list, n, i) ==
    IF i > Len(list) THEN NoEncoder
    ELSE IF Selectable(list[i], n) THEN list[i]
    ELSE FirstSelectable(list, n, i + 1)

\* POST /settings/encoder -> select_encoder(n): without a name the endpoint
\* answers with an error itself; select_encoder selects the first entry of
\* that name that is available and answers ok, or answers with an error.
SetEncoder(n) ==
    LET e == IF n = "" THEN NoEncoder ELSE FirstSelectable(available_encoders, n, 1)
        ok == e # NoEncoder
    IN  /\ selected_encoder' = IF ok THEN e ELSE selected_encoder
        /\ lastSelect' = [called |-> TRUE, name |-> n,
                          status |-> IF ok THEN "ok" ELSE "error",
                          before |-> selected_encoder,
                          after |-> selected_encoder']
        /\ select_ok' = (select_ok \/ ok)
        /\ select_error' = (select_error \/ ~ok)
        /\ UNCHANGED <<probe, ffmpeg_path, available_encoders>>

\* A plausible slip: an entry is marked when it is of the selected type.
MarkedSelectedByType(e, sel) == e.encoder_type = sel.encoder_type

\* get_available_encoders: `"selected": e == self._selected_encoder`, the
\* field-wise equality of the dataclass.
MarkedSelected(e, sel) == e = sel

\* get_available_encoders
GetAvailableEncoders ==
    [i \in 1..Len(available_encoders) |->
        [type |-> available_encoders[i].encoder_type,
         name |-> available_encoders[i].name,
         codec |-> available_encoders[i].codec,
         available |-> available_encoders[i].available,
         selected |-> MarkedSelected(available_encoders[i], selected_encoder)]]

\* The names a request may carry: the registered ones, one that is
\* registered nowhere, and none.
EncoderNames == HardwareNames \cup {"libx264", "h264_vaapi", ""}

\* A step of the encoder registry.
EncStep(A) == A /\ UNCHANGED <<netVars, audioVars, videoVars, rtcVars, mixVars>>

\* A step of the audio manager or of a pull of one of its tracks.
MixStep(A) == A /\ UNCHANGED <<netVars, audioVars, videoVars, rtcVars, encVars>>

\* A step of the settings: the endpoint, a channel message, a frame pull.
SettingsStep(A) ==
    OnLoop(A) /\ UNCHANGED <<netVars, audioVars, videoVars, closeVars, answerVars,
                             monitorVars, encVars, mixVars>>

\* A step of a worker thread of the executor.
WorkerStep(A) ==
    A /\ UNCHANGED <<netVars, audioVars, videoVars, closeVars, answerVars, monitorVars,
                     encVars, mixVars>>

\* A step of the monitor endpoint.
MonitorStep(A) ==
    OnLoop(A) /\ UNCHANGED <<netVars, audioVars, videoVars, closeVars, answerVars, encVars,
                             mixVars, lastSel>>

\* select_monitor(i) with the status the endpoint returns.
SelectStep(i) ==
    /\ OnLoop(SelectMonitor(i))
    /\ lastSel' = [called |-> TRUE, index |-> i,
                   status |-> IF ValidMonitor(i) THEN "ok" ELSE "error",
                   index_before |-> monitor_index["server"],
                   region_before |-> capture_monitor["server"]]
    /\ UNCHANGED <<netVars, audioVars, videoVars, closeVars, answerVars, encVars, mixVars>>


\* ------------------------------------------------------------------------
\* Specifications
\* ------------------------------------------------------------------------
\* The optimizer after construction, a track on the sounddevice backend.
Init ==
    /\ NetInit /\ AudioInit("sounddevice") /\ VideoInit /\ RtcInit /\ EncInit(NoFfmpeg)
    /\ MixInit

\* A step of the network optimizer.
NetStep(A) ==
    A /\ UNCHANGED <<lastWindow, evaluations, lastReturn, audioVars, videoVars, rtcVars,
                     encVars, mixVars>>
\* A step of the network optimizer that calls calculate_optimal_delay, with
\* the window the call saw.
DelayStep(A) ==
    /\ A
    /\ lastWindow' = jitter_history'
    /\ UNCHANGED <<evaluations, lastReturn, audioVars, videoVars, rtcVars, encVars, mixVars>>

\* A step of AdaptiveBitrate.calculate_quality, its call recorded when it
\* reached the table.
RankStep(A) ==
    /\ A
    /\ evaluations' = IF lastCalc'.evaluated THEN evaluations \cup {lastCalc'}
                                             ELSE evaluations
    /\ UNCHANGED <<lastWindow, lastReturn, audioVars, videoVars, rtcVars, encVars, mixVars>>

\* A step of get_recommended_settings, with what it returned.
ReturnStep(A) ==
    /\ A
    /\ lastReturn' = RecommendedSettings(lastCalc'.ret, lastDelay'.ret,
                                         metrics.quality_score, metrics.latency)
    /\ UNCHANGED <<lastWindow, evaluations, audioVars, videoVars, rtcVars, encVars, mixVars>>

\* A step of the audio track.
AudioStep(A) == A /\ UNCHANGED <<netVars, videoVars, rtcVars, encVars, mixVars>>
\* A step of the video track.
VideoStep(A) == A /\ UNCHANGED <<netVars, audioVars, rtcVars, encVars, mixVars>>
\* A step of the connection manager, of a peer connection or of an endpoint.
RtcStep(A) ==
    OnLoop(A) /\ UNCHANGED <<netVars, audioVars, videoVars, closeVars, answerVars,
                             settingsVars, monitorVars, encVars, mixVars>>

\* The record of a receive_webrtc_answer step: the call, its result, and
\* whether it changed a connection's state or the live set; an applied
\* answer starts the 5 s.
LogAnswer(id, a) ==
    LET known == id \in active_pcs
        before == IF id \in PcIds THEN signalingState[id] ELSE "none"
        err == AnswerError(known, before, a)
    IN  /\ lastAnswer' = [id |-> id, known |-> known, before |-> before,
                          answer |-> a, error |-> err, calls |-> 1,
                          changed |-> <<signalingState', iceGatheringState',
                                        connectionState', negotiated',
                                        peer_connections', active_pcs'>>
                                      # <<signalingState, iceGatheringState,
                                          connectionState, negotiated,
                                          peer_connections, active_pcs>>]
        /\ ice_bound' = IF err = "none" THEN [ice_bound EXCEPT ![id] = "running"]
                        ELSE ice_bound

\* The record of a transport coming up: within the 5 s if they still run.
LogConnected(c) ==
    /\ ice_bound' = [ice_bound EXCEPT ![c] = IF @ = "running" THEN "met" ELSE @]
    /\ UNCHANGED lastAnswer

\* 5 s after the answer was applied the connection is not connected.
IceBoundElapses(c) ==
    /\ ice_bound[c] = "running"
    /\ ice_bound' = [ice_bound EXCEPT ![c] = "missed"]
    /\ UNCHANGED <<pcVars, opVars, state_handler, mgrVars, cleanupVars, resVars,
                   lastAnswer>>
    /\ UNCHANGED trackVars

\* A step of SpecRTC that is recorded: the step and its record.
AnswerStep(A, L) ==
    OnLoop(A) /\ L /\ UNCHANGED <<netVars, audioVars, videoVars, closeVars, settingsVars,
                                  monitorVars, encVars, mixVars>>

\* What a step changed of what a cleanup call is observed on.
ObservedChange ==
    Observed(peer_connections', data_channels', signalingState', connectionState')
        # Observed(peer_connections, data_channels, signalingState, connectionState)

\* The record of an on_connectionstatechange step: whether it called
\* cleanup_peer_connection, whether on a connection it was called on before,
\* and what the call did.
LogCleanupOne(c) ==
    /\ IF connectionState[c] \in {"failed", "closed"}
       THEN /\ cleanup_calls' = [cleanup_calls EXCEPT ![c] = MinOf(@ + 1, 2)]
            /\ lastCleanup' = [op |-> "one", repeat |-> cleanup_calls[c] >= 1,
                               changed |-> ObservedChange,
                               raised |-> CleanupRaises(c, peer_connections)]
       ELSE UNCHANGED <<cleanup_calls, lastCleanup>>
    /\ UNCHANGED <<all_calls, cleanup_snap>>

\* The record of a cleanup_all step: a call is a repeat when it starts on
\* the state the previous call left.
LogCleanupAll ==
    /\ all_calls' = IF cleanup_pc # "closing" THEN all_calls + 1 ELSE all_calls
    /\ cleanup_snap' = IF cleanup_pc' = "done"
                       THEN Observed(peer_connections', data_channels',
                                     signalingState', connectionState')
                       ELSE cleanup_snap
    /\ lastCleanup' =
          [op |-> "all",
           repeat |-> /\ cleanup_pc = "done"
                      /\ cleanup_snap = Observed(peer_connections, data_channels,
                                                 signalingState, connectionState),
           changed |-> ObservedChange,
           raised |-> FALSE]
    /\ UNCHANGED cleanup_calls

\* A step of SpecClose: the step and its record.
CloseStep(A, L) ==
    OnLoop(A) /\ L /\ UNCHANGED <<netVars, audioVars, videoVars, answerVars, settingsVars,
                                  monitorVars, encVars, mixVars>>

\* Spec: two kinds of samples, the clock in steps of half a cooldown.
Next ==
    \/ \E dt \in CooldownSteps : NetStep(Tick(dt, MaxTime))
    \/ \E s \in CooldownSamples : Len(fed) < MaxUpdates /\ NetStep(Update(s))
    \/ \E s \in CooldownSamples : Len(fed) < MaxUpdates /\ NetStep(OptimizeNetwork(s))
    \/ NetStep(GetRecommendedSettings)
    \/ NetStep(GetStatus)

Spec == Init /\ [][Next]_vars

\* SpecTier: samples on and around the rows of the tier table, the clock in
\* steps of one cooldown.
NextTier ==
    \/ \E dt \in TierSteps : NetStep(Tick(dt, MaxTime))
    \/ \E s \in TierSamples : Len(fed) < MaxTierUpdates /\ NetStep(Update(s))
    \/ NetStep(GetRecommendedSettings)
    \/ NetStep(GetStatus)

SpecTier == Init /\ [][NextTier]_vars

\* SpecJitter: one kind of sample, arriving at irregular intervals.
NextJitter ==
    \/ \E dt \in JitterSteps : NetStep(Tick(dt, MaxJitterTime))
    \/ Len(fed) < MaxJitterUpdates /\ NetStep(Update(JitterSample))
    \/ NetStep(GetRecommendedSettings)
    \/ NetStep(GetStatus)

SpecJitter == Init /\ [][NextJitter]_vars

\* SpecRank: samples of every tier, four updates, so that calculate_quality
\* evaluates several different pairs of averages in one run.
NextRank ==
    \/ \E dt \in TierSteps : NetStep(Tick(dt, MaxRankTime))
    \/ \E s \in RankSamples : Len(fed) < MaxRankUpdates /\ NetStep(Update(s))
    \/ RankStep(GetRecommendedSettings)

SpecRank == Init /\ [][NextRank]_vars

\* SpecScore: the endpoint's optimize_network on samples of every kind.
NextScore ==
    \/ \E dt \in TierSteps : NetStep(Tick(dt, MaxScoreTime))
    \/ \E s \in ScoreSamples : Len(fed) < MaxScoreUpdates /\ NetStep(OptimizeNetwork(s))

SpecScore == Init /\ [][NextScore]_vars

\* SpecMix: the audio manager, its tracks, and pulls on samples of every kind.
NextMix ==
    \/ MixStep(AmCreateTrack)
    \/ \E m \in BOOLEAN : MixStep(AmSetMuted(m))
    \/ \E v \in VolumeRequests : MixStep(AmSetVolume(v))
    \/ \E i \in 1..MaxMixTracks, sample \in InputSamples : MixStep(MixPull(i, sample))

SpecMix == Init /\ [][NextMix]_vars

\* SpecPreset: updates one clock step apart, and get_recommended_settings.
NextPreset ==
    \/ \E dt \in TierSteps :
           /\ fed # <<>> /\ now = fed[Len(fed)].t
           /\ Len(fed) < MaxPresetUpdates
           /\ NetStep(Tick(dt, MaxTime * MaxPresetUpdates))
    \/ \E s \in PresetSamples :
           /\ Len(fed) < MaxPresetUpdates
           /\ fed # <<>> => now > fed[Len(fed)].t
           /\ NetStep(Update(s))
    \/ ReturnStep(GetRecommendedSettings)

SpecPreset == Init /\ [][NextPreset]_vars

\* SpecDelay: arrivals 5, 40 or 300 ms apart (one clock step between two
\* updates), and calls of get_recommended_settings.
NextDelay ==
    \/ \E dt \in DelaySteps :
           /\ fed # <<>> /\ now = fed[Len(fed)].t
           /\ NetStep(Tick(dt, MaxDelayUpdates * LongestDelayStep))
    \/ /\ Len(fed) < MaxDelayUpdates
       /\ fed # <<>> => now > fed[Len(fed)].t
       /\ NetStep(Update(JitterSample))
    \/ DelayStep(GetRecommendedSettings)

SpecDelay == Init /\ [][NextDelay]_vars

\* SpecWindows: optimize_network fed once every FeedInterval ms with samples
\* that are all different, long enough for every window to overflow.
FeedDue == IF fed = <<>> THEN TRUE ELSE now = fed[Len(fed)].t + FeedInterval

NextWindows ==
    \/ ~FeedDue /\ NetStep(Tick(FeedInterval, MaxFeeds * FeedInterval))
    \/ FeedDue /\ Len(fed) < MaxFeeds /\ NetStep(OptimizeNetwork(FeedSample(Len(fed))))

SpecWindows == Init /\ [][NextWindows]_vars

\* SpecAudio: one audio track, on each of the backends: the capture thread,
\* the puller, mute and stop.
InitAudio ==
    /\ NetInit /\ VideoInit /\ RtcInit /\ EncInit(NoFfmpeg) /\ MixInit
    /\ \E b \in Backends : AudioInit(b)

NextAudio ==
    \/ captured < MaxCaptured /\ AudioStep(CaptureBlock)
    \/ AudioStep(CapturePut)
    \/ AudioStep(CaptureExit)
    \/ AudioStep(CaptureError)
    \/ AudioStep(AudioStop)
    \/ \E m \in BOOLEAN : AudioStep(SetMuted(m))
    \/ AudioStep(AudioRecv)

SpecAudio == InitAudio /\ [][NextAudio]_vars

\* SpecTracks: the pulls of one audio and one video track, the audio
\* capture thread running.
NextTracks ==
    \/ captured < MaxTrackCaptured /\ AudioStep(CaptureBlock)
    \/ AudioStep(CapturePut)
    \/ AudioStep(AudioRecv)
    \/ VideoStep(VideoRecvStart)
    \/ VideoStep(VideoRecvFinish)

SpecTracks == InitAudio /\ [][NextTracks]_vars

\* SpecRTC: the exchange the server starts (/webrtc/offer, then
\* /webrtc/answer), the connections' transports and the shutdown, on up to
\* MaxConns connections.
NextRTC ==
    \/ pc_count < MaxConns /\ RtcStep(CreateOfferStart)
    \/ \E c \in PcIds : RtcStep(SetLocalAndWait(c))
    \/ \E c \in PcIds : RtcStep(GatheringCompletes(c))
    \/ \E c \in PcIds : RtcStep(WaitEndsByEvent(c))
    \/ \E c \in PcIds : RtcStep(WaitTimesOut(c))
    \/ \E id \in AnswerIds, a \in AnswerKinds :
          AnswerStep(ReceiveWebrtcAnswer(id, a), LogAnswer(id, a))
    \/ \E c \in PcIds : RtcStep(TransportStarts(c))
    \/ \E c \in PcIds : AnswerStep(TransportConnects(c), LogConnected(c))
    \/ \E c \in PcIds : RtcStep(TransportFails(c))
    \/ \E c \in PcIds : AnswerStep(IceBoundElapses(c), TRUE)
    \/ \E c \in PcIds : RtcStep(OnConnectionStateChange(c))
    \/ cleanup_pc = "idle" /\ RtcStep(CleanupAllStart)
    \/ \E c \in PcIds : RtcStep(CleanupAllClose(c))

\* A process where the audio capture module could not be imported.
InitNoAudio == Init /\ ~audio_enabled

SpecRTC == InitNoAudio /\ [][NextRTC]_vars

\* SpecRTCFair: create_offer and handle_offer on up to MaxFairConns
\* connections, with the scheduling asyncio gives: a coroutine that can go
\* on does, and a timer that is due fires.  Nothing is assumed of the ICE
\* agent or of the transport.
NextRTCFair ==
    \/ pc_count < MaxFairConns /\ RtcStep(CreateOfferStart)
    \/ \E o \in OfferKinds : pc_count < MaxFairConns /\ RtcStep(HandleOfferStart(o))
    \/ \E c \in PcIds : RtcStep(SetLocalAndWait(c))
    \/ \E c \in PcIds : RtcStep(GatheringCompletes(c))
    \/ \E c \in PcIds : RtcStep(WaitEndsByEvent(c))
    \/ \E c \in PcIds : RtcStep(WaitTimesOut(c))
    \/ \E c \in PcIds : RtcStep(TransportStarts(c))
    \/ \E c \in PcIds : RtcStep(TransportConnects(c))
    \/ \E c \in PcIds : RtcStep(TransportFails(c))
    \/ \E c \in PcIds : RtcStep(OnConnectionStateChange(c))
    \/ cleanup_pc = "idle" /\ RtcStep(CleanupAllStart)
    \/ \E c \in PcIds : RtcStep(CleanupAllClose(c))

SpecRTCFair ==
    /\ InitNoAudio
    /\ [][NextRTCFair]_vars
    /\ \A c \in PcIds : /\ WF_vars(RtcStep(SetLocalAndWait(c)))
                        /\ WF_vars(RtcStep(WaitEndsByEvent(c)))
                        /\ WF_vars(RtcStep(WaitTimesOut(c)))


\* SpecClose: the life of up to MaxCloseConns connections, from either
\* endpoint to their teardown, with cleanup_all called up to MaxCleanups
\* times.
NextClose ==
    \/ pc_count < MaxCloseConns /\ RtcStep(CreateOfferStart)
    \/ \E o \in OfferKinds : pc_count < MaxCloseConns /\ RtcStep(HandleOfferStart(o))
    \/ \E c \in PcIds : RtcStep(SetLocalAndWait(c))
    \/ \E c \in PcIds : RtcStep(GatheringCompletes(c))
    \/ \E c \in PcIds : RtcStep(WaitEndsByEvent(c))
    \/ \E c \in PcIds : RtcStep(WaitTimesOut(c))
    \/ \E id \in PcIds : RtcStep(ReceiveWebrtcAnswer(id, "matching"))
    \/ \E c \in PcIds : RtcStep(TransportStarts(c))
    \/ \E c \in PcIds : RtcStep(TransportConnects(c))
    \/ \E c \in PcIds : RtcStep(TransportFails(c))
    \/ \E c \in PcIds : CloseStep(OnConnectionStateChange(c), LogCleanupOne(c))
    \/ all_calls < MaxCleanups /\ CloseStep(CleanupAllStart, LogCleanupAll)
    \/ \E c \in PcIds : CloseStep(CleanupAllClose(c), LogCleanupAll)

SpecClose == InitNoAudio /\ [][NextClose]_vars

\* SpecTeardown: the same life, of connections with an audio track, the
\* shutdown called once.
NextTeardown ==
    \/ pc_count < MaxCloseConns /\ RtcStep(CreateOfferStart)
    \/ \E o \in OfferKinds : pc_count < MaxCloseConns /\ RtcStep(HandleOfferStart(o))
    \/ \E c \in PcIds : RtcStep(SetLocalAndWait(c))
    \/ \E c \in PcIds : RtcStep(GatheringCompletes(c))
    \/ \E c \in PcIds : RtcStep(WaitEndsByEvent(c))
    \/ \E c \in PcIds : RtcStep(WaitTimesOut(c))
    \/ \E id \in PcIds : RtcStep(ReceiveWebrtcAnswer(id, "matching"))
    \/ \E c \in PcIds : RtcStep(TransportStarts(c))
    \/ \E c \in PcIds : RtcStep(TransportConnects(c))
    \/ \E c \in PcIds : RtcStep(TransportFails(c))
    \/ \E c \in PcIds : RtcStep(OnConnectionStateChange(c))
    \/ \E c \in PcIds : RtcStep(AudioThreadExit(c))
    \/ cleanup_pc = "idle" /\ RtcStep(CleanupAllStart)
    \/ \E c \in PcIds : RtcStep(CleanupAllClose(c))

InitAudioEnabled == Init /\ audio_enabled

\* SpecShutdown: the shutdown, called once, among up to MaxShutdownConns
\* connections the server offers, at any point of their lives.
NextShutdown ==
    \/ pc_count < MaxShutdownConns /\ RtcStep(CreateOfferStart)
    \/ \E c \in PcIds : RtcStep(SetLocalAndWait(c))
    \/ \E c \in PcIds : RtcStep(GatheringCompletes(c))
    \/ \E c \in PcIds : RtcStep(WaitEndsByEvent(c))
    \/ \E c \in PcIds : RtcStep(WaitTimesOut(c))
    \/ \E id \in PcIds : RtcStep(ReceiveWebrtcAnswer(id, "matching"))
    \/ \E c \in PcIds : RtcStep(TransportStarts(c))
    \/ \E c \in PcIds : RtcStep(TransportConnects(c))
    \/ \E c \in PcIds : RtcStep(TransportFails(c))
    \/ \E c \in PcIds : CloseStep(OnConnectionStateChange(c), LogCleanupOne(c))
    \/ cleanup_pc = "idle" /\ CloseStep(CleanupAllStart, LogCleanupAll)
    \/ \E c \in PcIds : CloseStep(CleanupAllClose(c), LogCleanupAll)

SpecShutdown == InitNoAudio /\ [][NextShutdown]_vars

SpecTeardown == InitAudioEnabled /\ [][NextTeardown]_vars

\* The settings: connections made either way come up, the endpoint and the
\* control channels take requests, the video tracks are pulled.
NextSettings ==
    \/ pc_count < MaxSettingsConns /\ RtcStep(CreateOfferStart)
    \/ pc_count < MaxSettingsConns /\ RtcStep(HandleOfferStart("valid"))
    \/ \E c \in PcIds : RtcStep(SetLocalAndWait(c))
    \/ \E c \in PcIds : RtcStep(GatheringCompletes(c))
    \/ \E c \in PcIds : RtcStep(WaitEndsByEvent(c))
    \/ \E c \in PcIds : RtcStep(WaitTimesOut(c))
    \/ \E id \in PcIds : RtcStep(ReceiveWebrtcAnswer(id, "matching"))
    \/ \E c \in PcIds : RtcStep(TransportStarts(c))
    \/ \E c \in PcIds : RtcStep(TransportConnects(c))
    \/ \E c \in PcIds : SettingsStep(OnDataChannel(c))
    \/ \E f \in FpsRequests, q \in QualityRequests, w \in MaxWidthRequests :
           settings_updates < MaxSettingsUpdates /\ SettingsStep(UpdateVideoSettings(f, q, w))
    \/ \E c \in PcIds, t \in MessageTypes :
           \E f \in Optional(FpsRequests), w \in Optional(MaxWidthRequests) :
              /\ settings_updates < MaxSettingsUpdates
              /\ t # "config" => (f = None /\ w = None)
              /\ SettingsStep(OnMessage(c, t, f, w))
    \/ \E c \in PcIds : SettingsStep(RecvStart(c))
    \/ \E c \in PcIds : WorkerStep(GetFrame(c))
    \/ \E c \in PcIds : SettingsStep(RecvFinish(c))

SpecSettings == InitNoAudio /\ [][NextSettings]_vars

\* The monitors: connections come up, their video tracks are pulled, their
\* control channels take input, and the monitor is switched.
NextMonitor ==
    \/ pc_count < MaxMonitorConns /\ RtcStep(CreateOfferStart)
    \/ \E c \in PcIds : RtcStep(SetLocalAndWait(c))
    \/ \E c \in PcIds : RtcStep(GatheringCompletes(c))
    \/ \E c \in PcIds : RtcStep(WaitEndsByEvent(c))
    \/ \E id \in PcIds : RtcStep(ReceiveWebrtcAnswer(id, "matching"))
    \/ \E c \in PcIds : RtcStep(TransportStarts(c))
    \/ \E c \in PcIds : RtcStep(TransportConnects(c))
    \/ \E i \in MonitorRequests :
           switch_count < MaxSwitches /\ MonitorStep(SelectMonitor(i))
    \/ \E c \in PcIds : SettingsStep(RecvStart(c))
    \/ \E c \in PcIds : WorkerStep(GetFrame(c))
    \/ \E c \in PcIds : SettingsStep(RecvFinish(c))

SpecMonitor == InitNoAudio /\ [][NextMonitor]_vars

\* SpecSelect: select_monitor with indices inside and outside the list, and
\* the pulls of a connection's video track.
NextSelect ==
    \/ pc_count < MaxSelectConns /\ RtcStep(CreateOfferStart)
    \/ \E c \in PcIds : RtcStep(SetLocalAndWait(c))
    \/ \E c \in PcIds : RtcStep(WaitTimesOut(c))
    \/ \E id \in PcIds : RtcStep(ReceiveWebrtcAnswer(id, "matching"))
    \/ \E c \in PcIds : RtcStep(TransportStarts(c))
    \/ \E c \in PcIds : RtcStep(TransportConnects(c))
    \/ \E i \in MonitorRequests : switch_count < MaxSelectSwitches /\ SelectStep(i)
    \/ \E c \in PcIds : SettingsStep(RecvStart(c))
    \/ \E c \in PcIds : WorkerStep(GetFrame(c))
    \/ \E c \in PcIds : SettingsStep(RecvFinish(c))

SpecSelect == InitNoAudio /\ [][NextSelect]_vars

\* The event loop and the executor: connections come up, their video
\* tracks are pulled and their control channels take input.
NextLoop ==
    \/ pc_count < MaxLoopConns /\ RtcStep(CreateOfferStart)
    \/ \E c \in PcIds : RtcStep(SetLocalAndWait(c))
    \/ \E c \in PcIds : RtcStep(WaitTimesOut(c))
    \/ \E id \in PcIds : RtcStep(ReceiveWebrtcAnswer(id, "matching"))
    \/ \E c \in PcIds : RtcStep(TransportStarts(c))
    \/ \E c \in PcIds : RtcStep(TransportConnects(c))
    \/ \E c \in PcIds :
           lastMessage.pc = 0 /\ SettingsStep(OnMessage(c, "mouse_move", None, None))
    \/ \E c \in PcIds : SettingsStep(RecvStart(c))
    \/ \E c \in PcIds : WorkerStep(GetFrame(c))
    \/ \E c \in PcIds : SettingsStep(RecvFinish(c))

SpecLoop == InitNoAudio /\ [][NextLoop]_vars

\* The producers: connections are made either way, with and without audio.
NextProducers ==
    \/ pc_count < MaxProducerConns /\ RtcStep(CreateOfferStart)
    \/ \E o \in OfferKinds : pc_count < MaxProducerConns /\ RtcStep(HandleOfferStart(o))
    \/ \E c \in PcIds : RtcStep(SetLocalAndWait(c))
    \/ \E c \in PcIds : RtcStep(GatheringCompletes(c))
    \/ \E c \in PcIds : RtcStep(WaitEndsByEvent(c))
    \/ \E c \in PcIds : RtcStep(WaitTimesOut(c))

SpecProducers == Init /\ [][NextProducers]_vars

\* The encoder registry, constructed on any machine, and the requests to
\* select an encoder.
InitEncoder ==
    /\ NetInit /\ AudioInit("sounddevice") /\ VideoInit /\ RtcInit /\ ~audio_enabled
    /\ MixInit
    /\ \E p \in Probes : EncInit(p)

NextEncoder == \E n \in EncoderNames : EncStep(SetEncoder(n))

SpecEncoder == InitEncoder /\ [][NextEncoder]_vars

\* ------------------------------------------------------------------------
\* Claims about the network optimizer
\* ------------------------------------------------------------------------
CooldownMs == adjustment_cooldown * 1000

\* C1: any two changes of the current tier are at least adjustment_cooldown
\* apart, under every interleaving of update, get_recommended_settings and
\* get_status; a calculate_quality call made during the cooldown returns the
\* tier unchanged (its target is dropped: there is nothing that holds it);
\* so every window shorter than the cooldown holds at most one tier change.
C1_TierChangesRespectCooldown ==
    /\ \A i \in 1..Len(tier_changes), j \in 1..Len(tier_changes) :
          i < j => tier_changes[j] - tier_changes[i] >= CooldownMs
    /\ \A w \in 0..(MaxTime \div 100) :
          Cardinality({i \in 1..Len(tier_changes) :
                          /\ tier_changes[i] >= w * 100
                          /\ tier_changes[i] < w * 100 + CooldownMs}) <= 1
    /\ lastCalc.cooling => /\ lastCalc.ret = lastCalc.before
                           /\ current_preset = lastCalc.before
    /\ (tier_changes # <<>> /\ now - tier_changes[Len(tier_changes)] < CooldownMs)
          => last_adjustment = tier_changes[Len(tier_changes)]

\* C1 witness: the tier has changed twice, a call made during a cooldown
\* left a target other than the current tier unapplied, and the last call
\* was made during the cooldown of the second change.
C1_Witness ==
    /\ Len(tier_changes) >= 2
    /\ target_dropped
    /\ lastCalc.cooling

\* C2: a calculate_quality call that evaluates the averages (at least 3
\* latency samples, cooldown elapsed) returns, and makes current, the tier
\* of the first matching row of the table
\*   latency > 150 or bandwidth < 1000 -> 480p,  > 100 or < 2000 -> 720p,
\*   > 50 or < 5000 -> 1080p,  > 20 or < 10000 -> 1440p,  otherwise 4k;
\* 200/5000 gives 480p and 10/20000 gives 4k.
C2_TierMatchesTable ==
    lastCalc.evaluated =>
        LET LatOver(c) == lastCalc.sl > c * lastCalc.nl
            BwUnder(c) == lastCalc.sb < c * lastCalc.nb
            row1 == LatOver(150) \/ BwUnder(1000)
            row2 == LatOver(100) \/ BwUnder(2000)
            row3 == LatOver(50) \/ BwUnder(5000)
            row4 == LatOver(20) \/ BwUnder(10000)
        IN  /\ lastCalc.nl >= 3
            /\ row1 => lastCalc.ret = "480p"
            /\ (~row1 /\ row2) => lastCalc.ret = "720p"
            /\ (~row1 /\ ~row2 /\ row3) => lastCalc.ret = "1080p"
            /\ (~row1 /\ ~row2 /\ ~row3 /\ row4) => lastCalc.ret = "1440p"
            /\ (~row1 /\ ~row2 /\ ~row3 /\ ~row4) => lastCalc.ret = "4k"
            /\ (lastCalc.sl = 200 * lastCalc.nl /\ lastCalc.sb = 5000 * lastCalc.nb)
                  => lastCalc.ret = "480p"
            /\ (lastCalc.sl = 10 * lastCalc.nl /\ lastCalc.sb = 20000 * lastCalc.nb)
                  => lastCalc.ret = "4k"
            /\ current_preset = lastCalc.ret

\* C2 witness: an evaluating call on exactly latency 100 with ample
\* bandwidth (the edge of the 720p row), which chose 1080p.
C2_Witness ==
    /\ lastCalc.evaluated
    /\ lastCalc.sl = 100 * lastCalc.nl
    /\ lastCalc.sb >= 10000 * lastCalc.nb
    /\ lastCalc.ret = "1080p"

\* The history of update calls, by field.
FedTimes == [i \in 1..Len(fed) |-> fed[i].t]
FedLatencies == [i \in 1..Len(fed) |-> fed[i].latency]
FedBandwidths == [i \in 1..Len(fed) |-> fed[i].bandwidth]
FedDeltas == [i \in 1..(IF fed = <<>> THEN 0 ELSE Len(fed) - 1) |-> fed[i + 1].t - fed[i].t]

\* C3: the arrival window holds at most 100 entries, the jitter window 50,
\* the latency window 30, the bandwidth window 20, and each holds exactly
\* the most recent entries, in insertion order and unmodified.
C3_WindowsBounded ==
    /\ Len(arrival_times) <= 100
    /\ Len(jitter_history) <= 50
    /\ Len(latency_history) <= 30
    /\ Len(bandwidth_history) <= 20
    /\ arrival_times = LastN(FedTimes, 100)
    /\ jitter_history = LastN(FedDeltas, 50)
    /\ latency_history = LastN(FedLatencies, 30)
    /\ bandwidth_history = LastN(FedBandwidths, 20)

\* C3 witness: more updates than the largest window holds.
C3_Witness ==
    /\ Len(fed) > 100
    /\ Len(arrival_times) = 100
    /\ Len(jitter_history) = 50
    /\ Len(latency_history) = 30
    /\ Len(bandwidth_history) = 20
    /\ arrival_times[1] > 0

\* C4: a calculate_optimal_delay call on fewer than 5 inter-arrival samples
\* returns the target delay and leaves current_delay as it was.
C4_FewSamplesReturnTarget ==
    lastDelay.n < 5 =>
        /\ lastDelay.ret = target_delay
        /\ lastDelay.after = lastDelay.before
        /\ current_delay = lastDelay.before

\* C4 witness: a call on 4 samples that are not all equal.
C4_Witness ==
    /\ lastDelay.n = 4
    /\ Len(jitter_history) = 4
    /\ \E i \in 1..4 : jitter_history[i] # jitter_history[1]

\* ------------------------------------------------------------------------
\* Claims about the track producers
\* ------------------------------------------------------------------------
\* C5: the presentation timestamps a track emits are strictly increasing
\* from one pull to the next, for the audio and for the video track, also
\* across pulls that raised.
C5_PtsStrictlyIncreasing ==
    /\ \A i \in 1..Len(audio_out), j \in 1..Len(audio_out) :
          i < j => audio_out[i].pts < audio_out[j].pts
    /\ \A i \in 1..Len(video_out), j \in 1..Len(video_out) :
          i < j => video_out[i].pts < video_out[j].pts
    /\ \A i \in 1..Len(audio_out) : audio_out[i].pts < audio_timestamp
    /\ \A i \in 1..Len(video_out) : video_out[i].pts <= video_timestamp

\* C5 witness: two audio frames were emitted, and a video frame was emitted
\* after a frame and then a pull whose screen grab failed.
C5_Witness ==
    /\ Len(audio_out) >= 2
    /\ \E i \in 2..Len(video_out) : video_out[i].prev = "grab_failed"

\* C6: every audio pull returns a block without waiting for the queue: the
\* head of the queue when there is one, otherwise silence of the shape of a
\* captured block (960 samples, 2 channels); without a backend the track is
\* constructed, has no capture thread, and every pull returns silence.
C6_PullNeverWaits ==
    /\ \A i \in 1..Len(audio_out) :
          LET e == audio_out[i]
          IN  /\ e.samples = 960
              /\ e.channels = 2
              /\ e.samples = CapturedBlock(1).samples
              /\ e.channels = CapturedBlock(1).channels
              /\ e.queue_empty => (e.src = 0 /\ e.zeroed)
              /\ ~e.queue_empty => (e.src = e.head /\ e.src \in 1..captured)
    /\ Len(audio_out) < MaxPulls => ENABLED AudioRecv
    /\ audio_backend = "none" =>
          /\ capture_thread = "none"
          /\ ~track_running
          /\ captured = 0
          /\ \A i \in 1..Len(audio_out) : audio_out[i].src = 0

\* C6 witness: a track that returned silence on an empty queue and, on
\* another pull, a captured block.
C6_Witness ==
    /\ \E i \in 1..Len(audio_out) : audio_out[i].queue_empty /\ audio_out[i].src = 0
    /\ \E i \in 1..Len(audio_out) : audio_out[i].src > 0

QueuedIds == {audio_queue[i].id : i \in 1..Len(audio_queue)}
DeliveredIds == {audio_out[i].src : i \in 1..Len(audio_out)} \ {0}
HeldIds == IF capture_thread = "put" THEN {held_block.id} ELSE {}

\* C7: the queue never holds more than 50 blocks and the capture thread
\* never waits on it (when it reaches put, the queue has room, whatever the
\* puller did in between); a block that arrives on a full queue is the one
\* dropped, and the queued blocks stay: at every moment the queue is, in
\* capture order, exactly the blocks captured and neither dropped nor
\* delivered nor still in the thread's hand.
C7_QueueDropsNewest ==
    /\ Len(audio_queue) <= 50
    /\ capture_thread = "put" => Len(audio_queue) < 50
    /\ lastCapture.full <=> lastCapture.id \in dropped
    /\ lastCapture.full => lastCapture.qsize = 50
    /\ \A i \in 1..Len(audio_queue), j \in 1..Len(audio_queue) :
          i < j => audio_queue[i].id < audio_queue[j].id
    /\ QueuedIds \cup DeliveredIds \cup dropped \cup HeldIds = 1..captured
    /\ QueuedIds \cap dropped = {}
    /\ DeliveredIds \cap dropped = {}
    /\ HeldIds \cap dropped = {}
    /\ Cardinality(QueuedIds) = Len(audio_queue)

\* C7 witness: a block was dropped on a full queue, the 50 queued blocks
\* stayed, and after a pull the thread queued a later block.
C7_Witness ==
    /\ dropped # {}
    /\ Len(audio_queue) = 50
    /\ \E i \in 1..Len(audio_queue) : \A d \in dropped : audio_queue[i].id > d
    /\ DeliveredIds # {}

\* ------------------------------------------------------------------------
\* Claims about the connection manager
\* ------------------------------------------------------------------------
\* C8 (as stated): AcceptAnswer succeeds only for a known connection in
\* have-local-offer; for a closed connection, a connection whose answer is
\* already applied (stable) or an unknown id it fails with
\* InvalidStateError and changes no connection's state nor the live set.
C8_RejectsWithInvalidStateError ==
    lastAnswer.calls > 0 =>
        /\ lastAnswer.error = "none" =>
              (lastAnswer.known /\ lastAnswer.before = "have-local-offer")
        /\ (~lastAnswer.known \/ lastAnswer.before \in {"closed", "stable"}) =>
              (lastAnswer.error = "InvalidStateError" /\ ~lastAnswer.changed)

\* C8 (amended): AcceptAnswer succeeds only for a known connection in
\* have-local-offer; for a known connection that is closed or stable it
\* fails with InvalidStateError, for an unknown id with the endpoint's
\* "Invalid pc_id" error; in each of these failures no connection's state
\* and not the live set changes.
C8_RejectsAnswer ==
    lastAnswer.calls > 0 =>
        /\ lastAnswer.error = "none" =>
              (lastAnswer.known /\ lastAnswer.before = "have-local-offer")
        /\ (lastAnswer.known /\ lastAnswer.before \in {"closed", "stable"}) =>
              (lastAnswer.error = "InvalidStateError" /\ ~lastAnswer.changed)
        /\ ~lastAnswer.known =>
              (lastAnswer.error = "Invalid pc_id" /\ ~lastAnswer.changed)

\* C8 witness: an answer was refused with InvalidStateError by a connection
\* that had been closed while it was waiting for its answer.
C8_Witness ==
    /\ lastAnswer.calls > 0
    /\ lastAnswer.known
    /\ lastAnswer.before = "closed"
    /\ lastAnswer.error = "InvalidStateError"
    /\ ~negotiated[lastAnswer.id]

\* C9 (as stated): once create_offer has returned and the matching answer
\* is applied, the connection is connected before the 5 s bound of the ICE
\* gathering has passed.
C9_ConnectedWithinBound ==
    \A c \in PcIds : ice_bound[c] # "missed"

\* C9 (amended): once create_offer has returned and the matching answer is
\* applied, the connection's signaling state is stable (until it is closed)
\* and its transport may start: the connection state leaves new only on a
\* connection with both descriptions, and becomes connected only when the
\* transport connects, within 5 s of the answer or later or never.
C9_AnswerStartsTransport ==
    \A c \in PcIds :
        /\ ice_bound[c] # "off" =>
              /\ op_kind[c] = "create_offer"
              /\ op_pc[c] = "done"
              /\ negotiated[c]
              /\ signalingState[c] \in {"stable", "closed"}
        /\ connectionState[c] \in {"connecting", "connected", "failed"} => negotiated[c]
        /\ ice_bound[c] = "met" => connectionState[c] \in {"connected", "failed", "closed"}
        /\ (connectionState[c] = "connected" /\ op_kind[c] = "create_offer") =>
              ice_bound[c] \in {"met", "missed"}

\* C9 witness: a connection that was answered became connected after the
\* 5 s had passed.
C9_Witness ==
    \E c \in PcIds : ice_bound[c] = "missed" /\ connectionState[c] = "connected"

\* C10: create_offer and handle_offer always come back: a wait that starts
\* with the gathering complete returns at once, without registering a
\* handler; a gathering that completes during the wait always sets the event
\* (none is missed), and the wait returns; otherwise the timeout ends the
\* wait and the operation returns its description all the same.
C10_WaitAlwaysEnds ==
    /\ [](\A c \in PcIds :
            /\ wait_end[c] = "complete" => (~ice_handler[c] /\ ~gathering_complete[c])
            /\ (op_pc[c] = "waiting" /\ iceGatheringState[c] = "complete") =>
                  gathering_complete[c]
            /\ op_pc[c] = "done" <=> wait_end[c] \in {"complete", "event", "timeout"}
            /\ op_pc[c] = "done" => c \in active_pcs)
    /\ \A c \in PcIds : (op_pc[c] = "waiting") ~> (op_pc[c] = "done")
    /\ \A c \in PcIds : (op_pc[c] = "set_local") ~> (op_pc[c] \in {"done", "raised"})

\* C10 witness: an operation returned after its wait had timed out, the
\* gathering still going on.
C10_Witness ==
    \E c \in PcIds : /\ wait_end[c] = "timeout"
                     /\ op_pc[c] = "done"
                     /\ iceGatheringState[c] = "gathering"

\* C11: cleanup_peer_connection called again on a connection, and
\* cleanup_all called again on the state the previous cleanup_all left,
\* change neither the live set, nor the channel list, nor a connection's
\* state, and raise nothing.
C11_CleanupIdempotent ==
    lastCleanup.repeat => (~lastCleanup.changed /\ ~lastCleanup.raised)

\* C11 witness: cleanup_all was repeated on a manager whose connection had
\* been torn down, cleanup_peer_connection having run twice on it.
C11_Witness ==
    /\ lastCleanup.op = "all"
    /\ lastCleanup.repeat
    /\ \E c \in PcIds : cleanup_calls[c] >= 2 /\ connectionState[c] = "closed"

\* C12: once on_connectionstatechange has run for a connection whose
\* connection state became failed or closed, the connection is closed and
\* is not in the live set, whichever endpoint made it.
C12_FailedIsTornDown ==
    \A c \in PcIds :
        (connectionState[c] \in {"failed", "closed"} /\ ~state_handler[c]) =>
            /\ c \notin peer_connections
            /\ connectionState[c] = "closed"
            /\ signalingState[c] = "closed"

\* C15: when cleanup_all has completed, the live set is empty and every
\* connection allocated until then is closed.
C15_CleanupAllClosesAll ==
    (/\ cleanup_pc = "done"
     /\ cleanup_snap = Observed(peer_connections, data_channels, signalingState,
                                connectionState)) =>
        /\ peer_connections = {}
        /\ \A c \in 1..pc_count : signalingState[c] = "closed"

\* The connections whose channel, or whose audio track, a list holds.
Held(list) == {list[i] : i \in 1..Len(list)}

\* A connection torn down by cleanup_peer_connection: closed, out of the
\* live set, no handler left to run.
TornDown(c) ==
    /\ connectionState[c] = "closed"
    /\ c \notin peer_connections
    /\ ~state_handler[c]

\* C13: once a connection is torn down, its control channel is not in
\* data_channels, its audio track is not in active_tracks and the track's
\* capture is not running.
C13_TeardownReleasesResources ==
    \A c \in PcIds :
        (TornDown(c) /\ cleanup_pc = "idle") =>
            /\ c \notin Held(data_channels)
            /\ c \notin Held(active_tracks)
            /\ pc_audio[c] # "capturing"

\* C14: once a connection with an audio track is closed, the track's
\* running flag is cleared (its capture loop is stopping or has ended).
C14_CloseStopsAudioLoop ==
    \A c \in PcIds :
        (signalingState[c] = "closed" /\ pc_audio[c] # "none") =>
            pc_audio[c] \in {"stopping", "ended"}

\* ------------------------------------------------------------------------
\* C16: after any update_settings call the video track of every connection
\* of the live set has the manager's fps and max_width, whatever values
\* were supplied, a track made later starts with them, and a frame is made
\* with the settings its pull started with.
C16_UpdateReachesProducers ==
    /\ \A c \in peer_connections :
           track_fps[c] = fps /\ track_max_width[c] = max_width
    /\ \A c \in PcIds : lastFrame[c].made => lastFrame[c].used = lastFrame[c].start

\* C17: whatever requests arrived at the endpoint or on a control channel,
\* the manager's and every live track's fps is in [5, 60] and max_width in
\* [640, 3840], and the stored quality is in [10, 100].
WithinLimits(f, w) ==
    /\ MinFps <= f /\ f <= MaxFps
    /\ MinMaxWidth <= w /\ w <= MaxMaxWidth

C17_SettingsWithinLimits ==
    /\ WithinLimits(fps, max_width)
    /\ \A c \in peer_connections : WithinLimits(track_fps[c], track_max_width[c])
    /\ MinQuality <= video_settings.quality /\ video_settings.quality <= MaxQuality

\* C18: on the control channel of a connection made either way, a config
\* message updates the settings and is not forwarded to execute_command;
\* any other message is forwarded and changes no setting.
C18_ConfigIsDemultiplexed ==
    lastMessage.pc # 0 =>
        IF lastMessage.type = "config"
        THEN lastMessage.updated /\ ~lastMessage.forwarded
        ELSE /\ lastMessage.forwarded /\ ~lastMessage.updated
             /\ lastMessage.after = lastMessage.before

\* ------------------------------------------------------------------------
\* The backend of that name passed: the software encoder, or a backend that
\* ffmpeg lists and whose smoke test succeeded.
Passed(n) ==
    \/ n = "libx264"
    \/ probe.ffmpeg /\ probe.query = "ok" /\ n \in probe.listed /\ n \in probe.working

\* C19: select_encoder for a backend that failed its smoke test, or that is
\* not registered, answers with an error and leaves the selected encoder as
\* it was; for a backend that passed it makes that backend the selected one.
C19_SelectEncoder ==
    lastSelect.called =>
        IF Passed(lastSelect.name)
        THEN /\ lastSelect.status = "ok"
             /\ selected_encoder.name = lastSelect.name
             /\ selected_encoder.available
        ELSE /\ lastSelect.status = "error"
             /\ lastSelect.after = lastSelect.before
             /\ selected_encoder = lastSelect.before

\* C19 witness: a backend that ffmpeg lists and that failed its smoke test
\* was requested after another encoder than the best one had been selected.
C19_Witness ==
    /\ lastSelect.called
    /\ lastSelect.name \in probe.listed \ probe.working
    /\ lastSelect.status = "error"
    /\ select_ok
    /\ selected_encoder # SelectBestEncoder(available_encoders, NoEncoder)

\* C20: after construction and after any select_encoder calls, exactly one
\* entry of get_available_encoders is marked selected, whatever the
\* detection found.
C20_OneSelected ==
    Cardinality({i \in 1..Len(GetAvailableEncoders) : GetAvailableEncoders[i].selected}) = 1

\* C20 witness: both NVENC encoders passed, calls have succeeded and failed,
\* and the second NVENC encoder is the selected one.
C20_Witness ==
    /\ select_ok /\ select_error
    /\ {"h264_nvenc", "hevc_nvenc"} \subseteq probe.working
    /\ selected_encoder.name = "hevc_nvenc"

\* ------------------------------------------------------------------------
\* The order of the backends at startup: the priority of their types and,
\* within NVENC, the order of detection.
StartupOrder ==
    <<"h264_nvenc", "hevc_nvenc", "h264_qsv", "h264_amf", "h264_videotoolbox", "libx264">>

\* The first backend of the startup order, from the i-th on, that passed.
RECURSIVE FirstPassed(_)
FirstPassed(i) ==
    IF i >= Len(StartupOrder) \/ Passed(StartupOrder[i]) THEN StartupOrder[i]
    ELSE FirstPassed(i + 1)

\* The registry's entry of that name is recorded as unavailable.
RecordedUnavailable(n) ==
    \E i \in 1..Len(available_encoders) :
        available_encoders[i].name = n /\ ~available_encoders[i].available

\* C21: whatever the probes answered, the encoder selected at startup is
\* the first backend that passed its smoke test in the order NVENC >
\* QuickSync > AMF > VideoToolbox > software (software when no hardware
\* backend passed), and a backend that the capability query lists and whose
\* smoke test failed is recorded as unavailable and is not the selection.
C21_StartupSelection ==
    /\ ~lastSelect.called => selected_encoder.name = FirstPassed(1)
    /\ \A n \in probe.listed \ probe.working :
           /\ RecordedUnavailable(n)
           /\ ~lastSelect.called => selected_encoder.name # n

\* C21 witness: at startup NVENC is listed and failed its smoke test, AMF
\* and VideoToolbox passed, and AMF is the selection.
C21_Witness ==
    /\ ~lastSelect.called
    /\ "h264_nvenc" \in probe.listed \ probe.working
    /\ {"h264_amf", "h264_videotoolbox"} \subseteq probe.working
    /\ "h264_qsv" \notin probe.working
    /\ selected_encoder.name = "h264_amf"

\* ------------------------------------------------------------------------
\* C24: a screen grab that fails during a video pull is absorbed: the pull
\* does not end by raising the grab's failure to its caller.
C24_GrabFailureAbsorbed == video_last # "grab_failed"

\* C25: when the audio backend has failed (the device could not be opened,
\* or the capture loop ended with an error), _running is cleared and every
\* later pull returns a block of the frame's size: the next queued block
\* while there is one, silence once the queue is drained.
C25_BackendFailureIsSilence ==
    /\ capture_thread = "failed" => ~track_running
    /\ \A i \in 1..Len(audio_out) :
           audio_out[i].failed =>
               /\ audio_out[i].samples = samples_per_frame
               /\ audio_out[i].channels = channels
               /\ IF audio_out[i].queue_empty
                  THEN audio_out[i].src = 0 /\ audio_out[i].zeroed
                  ELSE audio_out[i].src = audio_out[i].head

\* C25 witness: after the backend failed, one pull returned a block that
\* was still queued and a later one returned silence.
C25_Witness ==
    /\ capture_thread = "failed"
    /\ \E i, j \in 1..Len(audio_out) :
           /\ i < j
           /\ audio_out[i].failed /\ audio_out[i].src # 0
           /\ audio_out[j].failed /\ audio_out[j].src = 0

\* ------------------------------------------------------------------------
\* C22: a pull that starts after the last successful monitor switch, on any
\* live connection, whenever it was made, captures the monitor selected by
\* that switch.
C22_SwitchReachesNextPull ==
    \A c \in PcIds :
        (/\ lastFrame[c].made
         /\ switch_count > 0
         /\ lastFrame[c].epoch = switch_count) =>
            lastFrame[c].monitor = capture_monitor["server"]

\* The tracks of kind k added to c.
SendersOf(c, k) == {t \in senders[c] : t.kind = k}

\* C23: after any create_offer and handle_offer calls no track object is
\* attached to two connections, and every connection has exactly one video
\* track and at most one audio track.
C23_OneProducerPerConnection ==
    /\ \A c, d \in 1..pc_count : c # d => senders[c] \cap senders[d] = {}
    /\ \A c \in 1..pc_count :
           /\ Cardinality(SendersOf(c, "video")) = 1
           /\ Cardinality(SendersOf(c, "audio")) <= 1

\* C23 witness: with audio, one connection made by create_offer and one by
\* handle_offer each have their video and their audio track.
C23_Witness ==
    \E c, d \in 1..pc_count :
        /\ op_kind[c] = "create_offer" /\ op_kind[d] = "handle_offer"
        /\ Cardinality(senders[c]) = 2 /\ Cardinality(senders[d]) = 2

IsClampedMeanPlus2Stdev(k, w) ==
    LET n == Len(w)
        S == SeqSum(w)
        Q == SeqSumSq(w)
    IN  /\ min_delay <= k /\ k <= max_delay
        /\ k > min_delay => AtMostMeanPlus2Stdev(k, n, S, Q)
        /\ k < max_delay => ~AtMostMeanPlus2Stdev(k + 1, n, S, Q)

\* C27: a calculate_optimal_delay call on at least 5 inter-arrival samples
\* returns, and makes current, mean + 2 * stdev of the samples, truncated
\* and clamped to [min_delay, max_delay] = [20, 200]; the buffer delay that
\* get_recommended_settings reports is always in [20, 200].
C27_DelayIsClampedEstimate ==
    /\ lastDelay.n >= 5 =>
           /\ Len(lastWindow) = lastDelay.n
           /\ IsClampedMeanPlus2Stdev(lastDelay.ret, lastWindow)
           /\ lastDelay.after = lastDelay.ret
    /\ 20 <= lastDelay.ret /\ lastDelay.ret <= 200
    /\ 20 <= current_delay /\ current_delay <= 200

\* C27 witness: a call on 5 samples whose estimate is below min_delay, made
\* while the current delay was above min_delay.
C27_Witness ==
    /\ lastDelay.n = 5
    /\ ~AtMostMeanPlus2Stdev(min_delay, 5, SeqSum(lastWindow), SeqSumSq(lastWindow))
    /\ lastDelay.ret = min_delay
    /\ lastDelay.before > min_delay

\* ------------------------------------------------------------------------
\* C28: while fewer than 3 latency samples have been recorded, whatever
\* their values, calculate_quality returns the current tier and leaves the
\* tier and the time of the last adjustment as they were at construction.
C28_FewSamplesKeepTier ==
    Len(latency_history) < 3 =>
        /\ current_preset = "1080p"
        /\ last_adjustment = 0
        /\ tier_changes = <<>>
        /\ lastCalc.ret = "1080p"
        /\ ~lastCalc.evaluated

\* C28 witness: get_recommended_settings was called on 2 samples whose
\* averages select another tier than the current one, the cooldown over.
C28_Witness ==
    /\ Len(latency_history) = 2
    /\ lastDelay.n = 1
    /\ ~InCooldown(now, last_adjustment)
    /\ AverageTier(latency_history, bandwidth_history) # current_preset

\* ------------------------------------------------------------------------
\* C29: tier selection is monotone: of two evaluated pairs of averages, the
\* one with the latency at least as high and the bandwidth at most as high
\* never gets a tier higher in 480p < 720p < 1080p < 1440p < 4k.
WorseOrEqual(a, b) ==
    /\ a.sl * b.nl >= b.sl * a.nl
    /\ a.sb * b.nb <= b.sb * a.nb

C29_TierSelectionMonotone ==
    \A a, b \in evaluations :
        WorseOrEqual(a, b) => TierRank(a.ret) <= TierRank(b.ret)

\* C29 witness: two evaluated pairs, one strictly worse than the other in
\* both inputs, that got different tiers.
C29_Witness ==
    \E a, b \in evaluations :
        /\ a.sl * b.nl > b.sl * a.nl
        /\ a.sb * b.nb < b.sb * a.nb
        /\ TierRank(a.ret) < TierRank(b.ret)

\* ------------------------------------------------------------------------
\* C30: after every update the quality score is
\* (max(0, 100 - latency) + max(0, 100 - packet_loss * 100)) / 2 truncated to
\* an integer, it lies in 0..100, and the tier chosen by calculate_quality
\* is the one of the table for the averages, whatever the score.
C30_ScoreTruncatedHalfSum ==
    LET latency_score == MaxOf(0, 100 - metrics.latency)
        loss_score == MaxOf(0, 100 - metrics.packet_loss)
    IN  /\ 2 * metrics.quality_score <= latency_score + loss_score
        /\ latency_score + loss_score < 2 * metrics.quality_score + 2

C30_TierIgnoresScore ==
    lastCalc.evaluated =>
        lastCalc.ret = SelectTier(lastCalc.sl, lastCalc.nl, lastCalc.sb, lastCalc.nb)

C30_QualityScoreAdvisory ==
    /\ fed # <<>> => /\ C30_ScoreTruncatedHalfSum
                     /\ 0 <= metrics.quality_score
                     /\ metrics.quality_score <= 100
    /\ C30_TierIgnoresScore

\* ------------------------------------------------------------------------
\* C31: at every audio pull a muted track gives samples of zero; otherwise
\* each sample is the input scaled by the volume (within 0.0 .. 1.0) and by
\* 32767, its fraction dropped, and a value beyond -32768 .. 32767 is
\* brought to the nearest end of that range, never wrapped around.
C31_MuteVolumeClamp ==
    lastPull.track # 0 =>
        LET product == lastPull.in * lastPull.volume * 32767
            whole == IF product >= 0 THEN product \div 10000
                     ELSE 0 - ((0 - product) \div 10000)
        IN  /\ 0 <= lastPull.volume /\ lastPull.volume <= 100
            /\ lastPull.muted => lastPull.out = 0
            /\ ~lastPull.muted =>
                   lastPull.out = IF whole > 32767 THEN 32767
                                  ELSE IF whole < 0 - 32768 THEN 0 - 32768
                                  ELSE whole

\* ------------------------------------------------------------------------
\* C38: every track of active_tracks has the manager's mute flag and the
\* manager's volume brought into 0.0 .. 1.0, whenever it was created.
C38_TracksFollowManager ==
    \A i \in DOMAIN track_settings :
        /\ track_settings[i].muted = am_muted
        /\ track_settings[i].volume =
               (IF am_volume < 0 THEN 0 ELSE IF am_volume > 100 THEN 100 ELSE am_volume)

\* C38 witness: the manager is muted with a volume above 1.0; one track was
\* created before these settings and one under them.
C38_Witness ==
    /\ am_muted /\ am_volume > FullScale
    /\ \E i, j \in DOMAIN track_settings :
           /\ track_settings[i].born = [muted |-> FALSE, volume |-> FullScale]
           /\ track_settings[j].born = [muted |-> am_muted, volume |-> am_volume]

\* ------------------------------------------------------------------------
\* C32: within one audio track the captured blocks reach the puller in the
\* order of their capture, each at most once and none skipped except the
\* dropped ones; a dropped block is neither delivered nor queued for a later
\* pull; silence is returned only by a pull that found the queue empty.
C32_DeliveredInCaptureOrder ==
    /\ \A i \in 1..Len(audio_out), j \in 1..Len(audio_out) :
          (i < j /\ audio_out[i].src # 0 /\ audio_out[j].src # 0)
              => audio_out[i].src < audio_out[j].src
    /\ \A i \in 1..Len(audio_out) :
          LET e == audio_out[i]
          IN  /\ e.src = 0 => e.queue_empty
              /\ e.src # 0 =>
                     /\ e.src \notin dropped
                     /\ \A k \in 1..e.src :
                            k \in dropped \/ \E h \in 1..i : audio_out[h].src = k
    /\ \A n \in 1..Len(audio_queue) :
          /\ audio_queue[n].id \notin dropped
          /\ \A i \in 1..Len(audio_out) : audio_out[i].src < audio_queue[n].id

\* C32 witness: a pull returned silence, a block was dropped on the full
\* queue, and two later pulls delivered the first two blocks.
C32_Witness ==
    /\ Len(audio_out) = 3
    /\ audio_out[1].src = 0
    /\ audio_out[2].src = 1
    /\ audio_out[3].src = 2
    /\ dropped # {}

\* ------------------------------------------------------------------------
\* C33: the current tier is at every moment a key of the preset table, so
\* the lookup of get_recommended_settings is defined, and the call returns
\* that tier's name with its width, height, bitrate and fps, and the current
\* buffer delay.
C33_ReturnsCurrentPreset ==
    /\ current_preset \in DOMAIN QUALITY_PRESETS
    /\ lastReturn # NoReturn =>
           /\ lastReturn.video.preset = current_preset
           /\ \A f \in {"width", "height", "bitrate", "fps"} :
                  lastReturn.video[f] = QUALITY_PRESETS[current_preset][f]
           /\ DOMAIN lastReturn.video = {"preset", "width", "height", "bitrate", "fps"}
           /\ lastReturn.buffer_delay = current_delay

\* C33 witness: a call returned another tier than that of construction and
\* a buffer delay computed from the jitter window.
C33_Witness ==
    /\ lastReturn # NoReturn
    /\ lastReturn.video.preset # "1080p"
    /\ lastDelay.n >= 5
    /\ lastReturn.buffer_delay # target_delay

\* ------------------------------------------------------------------------
\* C34: a create_offer or handle_offer call that raised after allocating its
\* connection leaves the live set as it was before the call: the connection
\* is not in peer_connections, and it is closed.
C34_FailedOfferLeavesNoConnection ==
    \A c \in PcIds :
        op_pc[c] = "raised" =>
            /\ c \notin peer_connections
            /\ signalingState[c] = "closed"
            /\ pc_audio[c] \in {"none", "ended"}

\* ------------------------------------------------------------------------
\* C35: every connection id the answer endpoint resolves, a key of
\* active_pcs, is a connection of the manager's live set: the id of a
\* connection that was torn down no longer resolves.
C35_ResolvableIdsAreLive ==
    \A c \in active_pcs :
        /\ c \in peer_connections
        /\ signalingState[c] # "closed"

\* ------------------------------------------------------------------------
\* C36: after construction and after any select_encoder calls the selected
\* encoder is an entry of the registry whose availability flag is true; the
\* software encoder is registered and available on every machine.
C36_SelectedIsAvailable ==
    /\ \E i \in 1..Len(available_encoders) :
          /\ available_encoders[i] = selected_encoder
          /\ available_encoders[i].available
    /\ \E i \in 1..Len(available_encoders) :
          /\ available_encoders[i].encoder_type = "software"
          /\ available_encoders[i].name = "libx264"
          /\ available_encoders[i].available

\* C36 witness: on a machine where a listed backend failed its test, that
\* backend was requested and refused after a call had selected the software
\* encoder in place of the hardware encoder chosen at startup.
C36_Witness ==
    /\ lastSelect.called
    /\ lastSelect.status = "error"
    /\ lastSelect.name \in probe.listed \ probe.working
    /\ select_ok
    /\ selected_encoder.encoder_type = "software"
    /\ SelectBestEncoder(available_encoders, NoEncoder).encoder_type # "software"

\* ------------------------------------------------------------------------
\* C37: select_monitor with an index outside 0 .. (entries - 1) answers
\* with an error and leaves the selected index and the capture region as
\* they were; with an index of the list it sets both to that monitor.  The
\* index and the region of a ScreenCapture always name the same monitor, and
\* a pull during which no switch succeeded, whatever requests were refused,
\* has captured the region its ScreenCapture holds.
C37_SelectMonitor ==
    /\ \A o \in CaptureObjects :
          /\ monitor_index[o] = capture_monitor[o]
          /\ 0 <= monitor_index[o] /\ monitor_index[o] <= MonitorCount
    /\ lastSel.called =>
          IF lastSel.index < 0 \/ lastSel.index > MonitorCount
          THEN /\ lastSel.status = "error"
               /\ monitor_index["server"] = lastSel.index_before
               /\ capture_monitor["server"] = lastSel.region_before
          ELSE /\ lastSel.status = "ok"
               /\ monitor_index["server"] = lastSel.index
               /\ capture_monitor["server"] = lastSel.index
    /\ \A c \in PcIds :
          (recv_pc[c] = "grabbed" /\ recv_epoch[c] = switch_count)
              => recv_grab[c] = capture_monitor[track_capture[c]]

\* C37 witness: after a switch to monitor 2, a request for the index just
\* past the list was refused, and a pull of a track on the server's
\* ScreenCapture, started after that switch, grabbed monitor 2.
C37_Witness ==
    /\ lastSel.called
    /\ lastSel.index = MonitorCount + 1
    /\ lastSel.status = "error"
    /\ lastSel.region_before = 2
    /\ \E c \in PcIds :
          /\ recv_pc[c] = "grabbed"
          /\ recv_epoch[c] = switch_count
          /\ track_capture[c] = "server"
          /\ recv_grab[c] = 2

\* ------------------------------------------------------------------------
\* C39: after n add_packet calls the arrival window holds min(n, 100)
\* timestamps and the jitter window min(max(n - 1, 0), 50) deltas, each the
\* difference of two consecutive arrival timestamps; the jitter window never
\* shrinks, and a calculate_optimal_delay call on 5 or more deltas is never
\* followed by one on fewer.
C39_WindowCounts ==
    LET n == Len(fed)
        na == Len(arrival_times)
        nj == Len(jitter_history)
    IN  /\ na = (IF n < 100 THEN n ELSE 100)
        /\ nj = (IF n = 0 THEN 0 ELSE IF n - 1 < 50 THEN n - 1 ELSE 50)
        /\ \A i \in 1..nj :
              jitter_history[i] = arrival_times[na - nj + i] - arrival_times[na - nj + i - 1]

C39_JitterWindowNeverShrinks ==
    /\ []C39_WindowCounts
    /\ [][/\ Len(jitter_history') >= Len(jitter_history)
          /\ lastDelay.n >= 5 => lastDelay'.n >= 5]_vars

\* C39 witness: both windows have overflowed and the last
\* calculate_optimal_delay call saw a full jitter window.
C39_Witness ==
    /\ Len(fed) > 100
    /\ Len(jitter_history) = 50
    /\ lastDelay.n = 50
    /\ jitter_history[50] = arrival_times[100] - arrival_times[99]

\* ------------------------------------------------------------------------
\* C40: the automatic tier selection never makes 360p the current tier nor
\* returns it, and no tier change happens within adjustment_cooldown of the
\* construction: the current tier is 1080p as long as fewer than 3 latency
\* samples are recorded or the initial cooldown has not elapsed.
C40_InitialTierHeld ==
    /\ current_preset # "360p"
    /\ lastCalc.ret # "360p"
    /\ \A i \in 1..Len(tier_changes) : tier_changes[i] >= CooldownMs
    /\ (Len(latency_history) < MinLatencySamples \/ now < CooldownMs)
          => /\ current_preset = "1080p"
             /\ tier_changes = <<>>

\* C40 witness: during the initial cooldown calculate_quality was called on
\* 3 or more samples whose averages select another tier than 1080p.
C40_Witness ==
    /\ now > 0
    /\ now < CooldownMs
    /\ Len(latency_history) >= MinLatencySamples
    /\ lastCalc.cooling
    /\ AverageTier(latency_history, bandwidth_history) # "1080p"

====
